---- MODULE Spec2Model ----
(***************************************************************************)
(* Model of the rgb-ops persistence and merge-reveal core:                 *)
(*   - containers/anchors.rs : PubWitness / SealWitness merge-reveal       *)
(*   - persistence/memory.rs : MemStash, MemState, MemIndex, and the       *)
(*     global state iterator of MemContract                                *)
(*   - contract/assignments.rs : OutputAssignment visibility checks        *)
(*   - indexers : AnyResolver and the Electrum, Esplora and Mempool        *)
(*     adapters                                                            *)
(*                                                                         *)
(* Nine specifications share the module: SpecPub (PubWitness merges),      *)
(* SpecSeal (SealWitness merges), SpecStash (MemStash writes), SpecState   *)
(* (MemState writes and filtered reads), SpecIndex (MemIndex bundle        *)
(* writes), SpecOpouts (MemIndex assignment indexing), SpecGlobal          *)
(* (iteration of global state), SpecReplay (one contract replayed in two   *)
(* orders) and SpecResolver (witness resolution).  Variables a             *)
(* specification does not use keep their initial value.                    *)
(***************************************************************************)
EXTENDS Integers, Sequences, FiniteSets, TLC

VARIABLES
    pwA, pwB,        \* the two PubWitness values under merge
    pwSelf,          \* `self` of the merge of pwB into pwA (a clone of pwA at first)
    pwSwap,          \* `self` of the merge of pwA into pwB (a clone of pwB at first)
    pwRes,           \* result of the last PubWitness::merge_reveal call
    pwFirst,         \* `self` right after the first merge (pwB into pwA)
    pwStep,          \* position of the PubWitness merge driver
    swSelf, swOther, \* the two SealWitness values under merge
    swBefore,        \* swSelf as it was before SealWitness::merge_reveal
    swRes,           \* result of SealWitness::merge_reveal
    swStep,          \* position of the SealWitness merge driver
    stash,           \* the MemStash
    stashPrev,       \* the MemStash as it was before the last call
    stashCall,       \* the last call on the MemStash: operation, argument, result
    state,           \* the MemState
    stateCall,       \* the last call on the MemState, with what it replaced
    index,           \* the MemIndex
    indexCall,       \* the last call on the MemIndex: operation, arguments, result
    globalIter,      \* the GlobalStateIter held on a contract's global state, if any
    globalCall,      \* the last call on the iterator: operation, argument, result
    replay,          \* two MemStates built from one set of operations, and how far each is
    resolver,        \* the AnyResolver: the adapter it wraps and its consignment transactions
    resolverCall     \* the last call on the resolver, with the remote's answers and the lookups made

pubVars == <<pwA, pwB, pwSelf, pwSwap, pwRes, pwFirst, pwStep>>
sealVars == <<swSelf, swOther, swBefore, swRes, swStep>>
stashVars == <<stash, stashPrev, stashCall>>
stateVars == <<state, stateCall>>
indexVars == <<index, indexCall>>
iterVars == <<globalIter, globalCall>>
replayVars == <<replay>>
resolverVars == <<resolver, resolverCall>>
vars == <<pubVars, sealVars, stashVars, stateVars, indexVars, iterVars, replayVars, resolverVars>>

-----------------------------------------------------------------------------
(* Bounds *)

\* Highest tip of the remote's chain, and most block headers that arrive
\* while a witness is resolved.
MaxTip == 2
MaxForward == 1

\* Largest number of inputs of a modelled transaction.
MaxInputs == 2
\* Largest number of inputs of a transaction carried by a seal witness.
MaxSealInputs == 1
\* Mined witnesses sit at the heights 1..MaxHeight.
MaxHeight == 1

\* Largest depth an iterator is driven to.
MaxDepth == 3

\* Signature scripts and witness stacks the modelled inputs are drawn from.
\* Byte strings are sequences of bytes; a witness is a sequence of byte strings.
ScriptSigs == {<<>>, <<0>>}
Witnesses == {<<>>, << <<>> >>, << <<0>> >>}
\* The lock time stands for the non-witness data of a transaction other than
\* its inputs (version, outputs, lock time).
LockTimes == {0, 1}

-----------------------------------------------------------------------------
(* Bitcoin transactions and their ids *)

TxIn == [script_sig : ScriptSigs, witness : Witnesses]

InputLists(n) == UNION {[1..k -> TxIn] : k \in 0..n}

TransactionsOf(n) == [lock_time : LockTimes, input : InputLists(n)]

\* Transaction::compute_txid commits to everything but the witness fields of
\* the inputs: here the lock time and every input's signature script.  The
\* hash is modelled as the injective image of the committed data.
compute_txid(tx) ==
    [lock_time |-> tx.lock_time,
     script_sigs |-> [i \in DOMAIN tx.input |-> tx.input[i].script_sig]]

TxidsOf(n) == {compute_txid(t) : t \in TransactionsOf(n)}

-----------------------------------------------------------------------------
(* PubWitness *)

PubTxid(id) == [tag |-> "Txid", txid |-> id]
PubTx(t) == [tag |-> "Tx", tx |-> t]

PubWitnessesOf(n) ==
    {PubTxid(id) : id \in TxidsOf(n)} \cup {PubTx(t) : t \in TransactionsOf(n)}

PubWitness == PubWitnessesOf(MaxInputs)

\* PubWitness::txid
txid(w) == IF w.tag = "Txid" THEN w.txid ELSE compute_txid(w.tx)

\* impl PartialEq for PubWitness
PubWitnessEq(a, b) == txid(a) = txid(b)

Ok == [tag |-> "Ok"]
TxidMismatch(x, y) == [tag |-> "TxidMismatch", self |-> x, other |-> y]

RECURSIVE SumLen(_)
\* input.witness.iter().map(|w| w.len()).sum()
SumLen(wit) ==
    IF wit = <<>> THEN 0 ELSE Len(Head(wit)) + SumLen(Tail(wit))

Min(x, y) == IF x <= y THEN x ELSE y

\* Body of the loop over tx1.input.iter_mut().zip(tx2.input.iter())
MergeInput(input1, input2) ==
    LET len1 == SumLen(input1.witness)
        len2 == SumLen(input2.witness)
    IN  IF len1 < len2 THEN input2
        ELSE IF len1 = len2
             THEN IF Len(input2.script_sig) > Len(input1.script_sig)
                  THEN input2 ELSE input1
             ELSE input1

MergeInputs(in1, in2) ==
    [i \in DOMAIN in1 |->
        IF i <= Min(Len(in1), Len(in2)) THEN MergeInput(in1[i], in2[i]) ELSE in1[i]]

\* Mutant of PubMergeReveal: a compatible merge clones `other` over self.
PubMergeRevealClobber(self, other) ==
    IF txid(self) # txid(other)
    THEN [res |-> TxidMismatch(txid(self), txid(other)), self |-> self]
    ELSE [res |-> Ok, self |-> other]

\* Mutant of PubMergeReveal: the error names the txids in the wrong order.
PubMergeRevealErrSwapped(self, other) ==
    IF PubWitnessEq(self, other)
    THEN [res |-> Ok, self |-> self]
    ELSE [res |-> TxidMismatch(txid(other), txid(self)), self |-> self]

\* <PubWitness as MergeReveal>::merge_reveal(&mut self, other): the result and
\* the value `self` holds when the call returns.
PubMergeReveal(self, other) ==
    IF PubWitnessEq(self, other)
    THEN [res |-> Ok, self |-> self]
    ELSE IF txid(self) # txid(other)
    THEN [res |-> TxidMismatch(txid(self), txid(other)), self |-> self]
    ELSE IF other.tag = "Tx"
    THEN IF self.tag = "Tx"
         THEN [res |-> Ok,
               self |-> PubTx([self.tx EXCEPT
                                 !.input = MergeInputs(self.tx.input, other.tx.input)])]
         ELSE [res |-> Ok, self |-> other]
    ELSE [res |-> Ok, self |-> self]

NoRes == [tag |-> "None"]
NoPub == PubTxid(compute_txid([lock_time |-> 0, input |-> <<>>]))

-----------------------------------------------------------------------------
(* SealWitness *)

MpcRoots == {0, 1}
MpcMessages == {"m1"}

\* mpc::MerkleBlock: the commitment root and the messages revealed so far.
MerkleBlocks == [root : MpcRoots, known : SUBSET MpcMessages]

DbcProofs == {"Tapret", "Opret"}

UnrelatedBlocks(x, y) == [tag |-> "UnrelatedBlocks", base_root |-> x, merged_root |-> y]

\* mpc::MerkleBlock::merge_reveal: blocks of different roots are unrelated;
\* otherwise the revealed messages of both are kept.
MpcMergeReveal(self, other) ==
    IF self.root # other.root
    THEN [res |-> UnrelatedBlocks(self.root, other.root), self |-> self]
    ELSE [res |-> Ok, self |-> [self EXCEPT !.known = self.known \cup other.known]]

SealWitnessesOf(n) ==
    [public : PubWitnessesOf(n), merkle_block : MerkleBlocks, dbc_proof : DbcProofs]

SealWitness == SealWitnessesOf(MaxSealInputs)

\* SealWitness::witness_id
witness_id(w) == txid(w.public)

DbcMismatch == [tag |-> "DbcMismatch"]
WitnessMergeError(e) == [tag |-> "WitnessMergeError", inner |-> e]
MpcMismatch(e) == [tag |-> "MpcMismatch", inner |-> e]

\* Mutant of SealMergeReveal: a compatible public witness of `other` is taken
\* over before the merkle blocks are merged.
SealMergeRevealTakingPublic(self, other) ==
    IF self.dbc_proof # other.dbc_proof
    THEN [res |-> DbcMismatch, self |-> self]
    ELSE LET p == PubMergeReveal(self.public, other.public)
             s1 == [self EXCEPT !.public = IF p.res = Ok THEN other.public ELSE p.self]
         IN  IF p.res # Ok
             THEN [res |-> WitnessMergeError(p.res), self |-> s1]
             ELSE LET m == MpcMergeReveal(s1.merkle_block, other.merkle_block)
                      s2 == [s1 EXCEPT !.merkle_block = m.self]
                  IN  IF m.res # Ok
                      THEN [res |-> MpcMismatch(m.res), self |-> s2]
                      ELSE [res |-> Ok, self |-> s2]

\* Mutant of SealMergeReveal: the DBC proofs are compared after the public
\* witnesses have been merged.
SealMergeRevealDbcLate(self, other) ==
    LET p == PubMergeReveal(self.public, other.public)
        s1 == [self EXCEPT !.public = p.self]
    IN  IF p.res # Ok
        THEN [res |-> WitnessMergeError(p.res), self |-> s1]
        ELSE IF self.dbc_proof # other.dbc_proof
        THEN [res |-> DbcMismatch, self |-> s1]
        ELSE LET m == MpcMergeReveal(s1.merkle_block, other.merkle_block)
                 s2 == [s1 EXCEPT !.merkle_block = m.self]
             IN  IF m.res # Ok
                 THEN [res |-> MpcMismatch(m.res), self |-> s2]
                 ELSE [res |-> Ok, self |-> s2]

\* SealWitness::merge_reveal(&mut self, other): the result and the value
\* `self` holds when the call returns (`?` returns at the first error, after
\* the earlier steps have already written to self).
SealMergeReveal(self, other) ==
    IF self.dbc_proof # other.dbc_proof
    THEN [res |-> DbcMismatch, self |-> self]
    ELSE LET p == PubMergeReveal(self.public, other.public)
             s1 == [self EXCEPT !.public = p.self]
         IN  IF p.res # Ok
             THEN [res |-> WitnessMergeError(p.res), self |-> s1]
             ELSE LET m == MpcMergeReveal(s1.merkle_block, other.merkle_block)
                      s2 == [s1 EXCEPT !.merkle_block = m.self]
                  IN  IF m.res # Ok
                      THEN [res |-> MpcMismatch(m.res), self |-> s2]
                      ELSE [res |-> Ok, self |-> s2]

NoSeal == [public |-> NoPub, merkle_block |-> [root |-> 0, known |-> {}],
           dbc_proof |-> "Opret"]

EmptyMap == [x \in {} |-> x]

-----------------------------------------------------------------------------
(* Schemata and operations *)

None == <<>>
Some(x) == <<x>>

\* Witness transactions known to the state.
Txids == TxidsOf(0)
TxidA == compute_txid([lock_time |-> 0, input |-> <<>>])
TxidB == compute_txid([lock_time |-> 1, input |-> <<>>])

\* A seal definition: the txid may be left to the witness transaction.
Seal(id, vout) == [txid |-> id, vout |-> vout]

\* GraphSeal::conceal
conceal(seal) == <<"SecretSeal", seal>>

\* Assign::Revealed and Assign::ConfidentialSeal
Revealed(seal, st) == [tag |-> "Revealed", seal |-> seal, state |-> st]
ConfidentialSeal(secret, st) == [tag |-> "ConfidentialSeal", seal |-> secret, state |-> st]

Declarative(items) == [kind |-> "Declarative", items |-> items]
Fungible(items) == [kind |-> "Fungible", items |-> items]
Structured(items) == [kind |-> "Structured", items |-> items]

\* The schema of both contracts: one global state type of at most 2 items.
SchemaA == [name |-> "schemaA", global_types |-> ("globalA" :> [max_items |-> 2])]

\* Genesis of contract A: one global item and one right.
GenesisA ==
    [name |-> "genesisA", nonce |-> 0, transition_type |-> None,
     globals |-> ("globalA" :> <<"g0">>),
     assignments |-> ("rightA" :> Declarative(<<Revealed(Seal(Some(TxidA), 0), "void")>>))]

\* Genesis of contract B: one structured-data assignment.
GenesisB ==
    [name |-> "genesisB", nonce |-> 0, transition_type |-> None,
     globals |-> EmptyMap,
     assignments |-> ("dataA" :> Structured(<<Revealed(Seal(Some(TxidA), 1), "d0")>>))]

\* Transition of contract A: a global item, a right whose seal is left to the
\* witness, and two amounts of which the first is still concealed.
TransitionA ==
    [name |-> "transitionA", contract |-> "genesisA", nonce |-> 1,
     transition_type |-> Some("transfer"),
     globals |-> ("globalA" :> <<"g1">>),
     assignments |->
        ("rightA" :> Declarative(<<Revealed(Seal(None, 0), "void")>>)) @@
        ("amountA" :> Fungible(<<ConfidentialSeal(conceal(Seal(Some(TxidB), 0)), 3),
                                 Revealed(Seal(Some(TxidA), 1), 5)>>))]

\* Transition of contract B: one structured-data assignment on a witness seal.
TransitionB ==
    [name |-> "transitionB", contract |-> "genesisB", nonce |-> 1,
     transition_type |-> Some("transfer"),
     globals |-> EmptyMap,
     assignments |-> ("dataA" :> Structured(<<Revealed(Seal(None, 0), "d1")>>))]

StateGenesis == {GenesisA, GenesisB}
Transition == {TransitionA, TransitionB}

\* Conceal for Assign: a revealed seal becomes its secret seal.
ConcealAssign(a) ==
    IF a.tag = "Revealed" THEN ConfidentialSeal(conceal(a.seal), a.state) ELSE a

\* Conceal for an operation: every assignment concealed.
ConcealOp(op) ==
    [op EXCEPT !.assignments =
        [ty \in DOMAIN op.assignments |->
            [op.assignments[ty] EXCEPT !.items =
                [i \in DOMAIN op.assignments[ty].items |->
                    ConcealAssign(op.assignments[ty].items[i])]]]]

schema_id(s) == <<"SchemaId", s.name>>
contract_id(g) == <<"ContractId", g.name>>
op_id(op) == <<"OpId", op.name>>

InputMaps == {"inputsA", "inputsB"}
BundleIds == {<<"BundleId", m>> : m \in InputMaps}
ContractIds == {contract_id(g) : g \in StateGenesis}

\* WitnessOrd; a mined position is its height.
Archived == [tag |-> "Archived", height |-> 0]
Tentative == [tag |-> "Tentative", height |-> 0]
Mined(h) == [tag |-> "Mined", height |-> h]
WitnessOrd == {Archived, Tentative} \cup {Mined(h) : h \in 1..MaxHeight}

-----------------------------------------------------------------------------
(* MemStash *)

\* Capacities of the confined collections (amplify::confinement): u8::MAX for
\* Tiny and u16::MAX for Small collections.  Large collections hold u32::MAX
\* entries, more than the largest integer TLC represents, which stands for it.
TinyMax == 255
SmallMax == 65535
LargeMax == 2147483647

\* Content-addressed objects.  An id commits to the concealed form of the
\* object only: a genesis may hold seals that are still concealed, a bundle
\* may know only some of its transitions, and a seal witness may hold the txid
\* alone.  The name of an object stands for the content its id commits to.
Schema == {SchemaA}
Genesis == {GenesisA, ConcealOp(GenesisA)}
TransitionBundle == [input_map : {"inputsA"}, known_transitions : SUBSET {"transitionA"}]
Lib == [code : {"libA"}]
TypeIds == {"typeA"}
GraphSeal == {Seal(None, 0)}

\* Seal witnesses offered to the stash: both variants of the public witness
\* of two transactions, both kinds of DBC proof, one merkle block.
StashSealWitness ==
    {w \in SealWitnessesOf(0) : w.merkle_block = [root |-> 0, known |-> {}]}

bundle_id(b) == <<"BundleId", b.input_map>>
lib_id(l) == <<"LibId", l.code>>

\* MemStash::in_memory
EmptyStash ==
    [schemata |-> EmptyMap, geneses |-> EmptyMap, bundles |-> EmptyMap,
     witnesses |-> EmptyMap, secret_seals |-> {}, type_system |-> {},
     libs |-> EmptyMap]

\* Mutant of Put: the other keys of the map are dropped.
PutAlone(m, k, v) == [x \in {k} |-> v]

Put(m, k, v) == [x \in DOMAIN m \cup {k} |-> IF x = k THEN v ELSE m[x]]

OkVal(v) == [tag |-> "Ok", val |-> v]
Err(e) == [tag |-> "Err", err |-> e]
Confinement == [tag |-> "Confinement"]

\* Confined map insert: fails when a new key would exceed the capacity,
\* otherwise stores the value and tells whether the key was present.
ConfinedInsert(m, k, v, max) ==
    IF k \notin DOMAIN m /\ Cardinality(DOMAIN m) >= max
    THEN [ok |-> FALSE, map |-> m, present |-> FALSE]
    ELSE [ok |-> TRUE, map |-> Put(m, k, v), present |-> k \in DOMAIN m]

\* Confined set push: fails when the set is at its capacity.
ConfinedPush(set, e, max) ==
    IF Cardinality(set) >= max
    THEN [ok |-> FALSE, set |-> set]
    ELSE [ok |-> TRUE, set |-> set \cup {e}]

\* Mutant of replace_schema: tells "present" where "new" is meant.
replace_schema_inverted(st, s) ==
    LET id == schema_id(s)
    IN  IF id \notin DOMAIN st.schemata
        THEN LET r == ConfinedInsert(st.schemata, id, s, TinyMax)
             IN  IF r.ok THEN [ret |-> OkVal(FALSE), stash |-> [st EXCEPT !.schemata = r.map]]
                 ELSE [ret |-> Err(Confinement), stash |-> st]
        ELSE [ret |-> OkVal(TRUE), stash |-> st]

\* StashWriteProvider::replace_schema
replace_schema(st, s) ==
    LET id == schema_id(s)
    IN  IF id \notin DOMAIN st.schemata
        THEN LET r == ConfinedInsert(st.schemata, id, s, TinyMax)
             IN  IF r.ok THEN [ret |-> OkVal(TRUE), stash |-> [st EXCEPT !.schemata = r.map]]
                 ELSE [ret |-> Err(Confinement), stash |-> st]
        ELSE [ret |-> OkVal(FALSE), stash |-> st]

\* StashWriteProvider::replace_genesis
replace_genesis(st, g) ==
    LET r == ConfinedInsert(st.geneses, contract_id(g), g, SmallMax)
    IN  IF r.ok THEN [ret |-> OkVal(~r.present), stash |-> [st EXCEPT !.geneses = r.map]]
        ELSE [ret |-> Err(Confinement), stash |-> st]

\* StashWriteProvider::replace_bundle
replace_bundle(st, b) ==
    LET r == ConfinedInsert(st.bundles, bundle_id(b), b, LargeMax)
    IN  IF r.ok THEN [ret |-> OkVal(~r.present), stash |-> [st EXCEPT !.bundles = r.map]]
        ELSE [ret |-> Err(Confinement), stash |-> st]

\* StashWriteProvider::replace_witness
replace_witness(st, w) ==
    LET r == ConfinedInsert(st.witnesses, witness_id(w), w, LargeMax)
    IN  IF r.ok THEN [ret |-> OkVal(~r.present), stash |-> [st EXCEPT !.witnesses = r.map]]
        ELSE [ret |-> Err(Confinement), stash |-> st]

\* StashWriteProvider::consume_types: TypeSystem::extend
consume_types(st, types) ==
    IF Cardinality(st.type_system \cup types) > LargeMax
    THEN [ret |-> Err(Confinement), stash |-> st]
    ELSE [ret |-> OkVal(<<>>), stash |-> [st EXCEPT !.type_system = @ \cup types]]

\* StashWriteProvider::replace_lib
replace_lib(st, l) ==
    LET r == ConfinedInsert(st.libs, lib_id(l), l, SmallMax)
    IN  IF r.ok THEN [ret |-> OkVal(~r.present), stash |-> [st EXCEPT !.libs = r.map]]
        ELSE [ret |-> Err(Confinement), stash |-> st]

\* StashWriteProvider::add_secret_seal
add_secret_seal(st, seal) ==
    LET present == seal \in st.secret_seals
        r == ConfinedPush(st.secret_seals, seal, LargeMax)
    IN  IF r.ok THEN [ret |-> OkVal(~present), stash |-> [st EXCEPT !.secret_seals = r.set]]
        ELSE [ret |-> Err(Confinement), stash |-> st]

Absent(kind, id) == [tag |-> kind, id |-> id]

\* StashReadProvider::schema, genesis, bundle, witness, lib
schema(st, id) ==
    IF id \in DOMAIN st.schemata THEN OkVal(st.schemata[id]) ELSE Err(Absent("SchemaAbsent", id))
genesis(st, id) ==
    IF id \in DOMAIN st.geneses THEN OkVal(st.geneses[id]) ELSE Err(Absent("ContractAbsent", id))
bundle(st, id) ==
    IF id \in DOMAIN st.bundles THEN OkVal(st.bundles[id]) ELSE Err(Absent("BundleAbsent", id))
witness(st, id) ==
    IF id \in DOMAIN st.witnesses THEN OkVal(st.witnesses[id]) ELSE Err(Absent("WitnessAbsent", id))
lib(st, id) ==
    IF id \in DOMAIN st.libs THEN OkVal(st.libs[id]) ELSE Err(Absent("LibAbsent", id))

\* StashReadProvider::seal_secret
seal_secret(st, secret) == {seal \in st.secret_seals : conceal(seal) = secret}

NoCall == [op |-> "none", arg |-> <<>>, ret |-> NoRes]

-----------------------------------------------------------------------------
(* MemState *)

\* MemState::in_memory
EmptyState == [witnesses |-> EmptyMap, invalid_bundles |-> {}, contracts |-> EmptyMap]

UnknownContract(cid) == [tag |-> "UnknownContract", id |-> cid]

\* MemGlobalState::new
MemGlobalState(limit) == [known |-> EmptyMap, limit |-> limit]

\* Mutant of MemContractState::new: every global type gets the widest limit.
MemContractState_unlimited(sch, cid) ==
    [schema_id |-> schema_id(sch),
     contract_id |-> cid,
     global |-> [ty \in DOMAIN sch.global_types |-> MemGlobalState(TinyMax)],
     rights |-> {}, fungibles |-> {}, data |-> {}]

\* MemContractState::new
MemContractState(sch, cid) ==
    [schema_id |-> schema_id(sch),
     contract_id |-> cid,
     global |-> [ty \in DOMAIN sch.global_types |->
                    MemGlobalState(sch.global_types[ty].max_items)],
     rights |-> {}, fungibles |-> {}, data |-> {}]

\* OrdOpRef of a genesis and of a transition with its witness and bundle
OrdGenesis(g) == [op |-> g, witness_id |-> None, bundle_id |-> None]
OrdTransition(t, wid, ord, bid) ==
    [op |-> t, witness_id |-> Some(wid), bundle_id |-> Some(bid)]

\* OpWitness::from(OrdOpRef)
OpWitness(ordop) ==
    [witness_id |-> ordop.witness_id, ty |-> ordop.op.transition_type]

\* GlobalOut and GlobalOut::witness_id
GlobalOut(opid, idx, op_witness, nonce) ==
    [opid |-> opid, index |-> idx, op_witness |-> op_witness, nonce |-> nonce]
out_witness_id(out) == out.op_witness.witness_id

\* Opout::new
Opout(opid, ty, no) == [op |-> opid, ty |-> ty, no |-> no]

\* ExposedSeal::to_output_seal_or_default and to_output_seal
to_output_seal_or_default(seal, wid) ==
    [txid |-> IF seal.txid = None THEN wid ELSE seal.txid[1], vout |-> seal.vout]
to_output_seal(seal) == [txid |-> seal.txid[1], vout |-> seal.vout]

\* OutputSeal::to_outpoint
to_outpoint(seal) == seal

\* OutputAssignment::with_witness and OutputAssignment::with_no_witness
with_witness(seal, wid, st, bid, opid, ty, no) ==
    [opout |-> Opout(opid, ty, no), seal |-> to_output_seal_or_default(seal, wid),
     state |-> st, bundle_id |-> bid, witness |-> Some(wid)]
with_no_witness(seal, st, bid, opid, ty, no) ==
    [opout |-> Opout(opid, ty, no), seal |-> to_output_seal(seal),
     state |-> st, bundle_id |-> bid, witness |-> None]

\* impl PartialEq for OutputAssignment: the opout and the seal decide
AssignmentEq(a, b) == a.opout = b.opout /\ a.seal = b.seal

\* Mutant of PushAssignment: the assignment pushed takes the place of the
\* stored one that equals it.
PushAssignmentLatest(set, a) ==
    {e \in set : ~AssignmentEq(e, a)} \cup {a}

\* LargeOrdSet::push of an assignment: BTreeSet::insert keeps the stored
\* element when an equal one is present.
PushAssignment(set, a) ==
    IF \E e \in set : AssignmentEq(e, a) THEN set ELSE set \cup {a}

RECURSIVE ProcessFrom(_, _, _, _, _, _, _)
\* `process` of MemContractState::add_assignments from item i on: one
\* OutputAssignment per revealed assignment, numbered by its position.
ProcessFrom(set, items, i, bid, opid, ty, wid) ==
    IF i > Len(items) THEN set
    ELSE IF items[i].tag # "Revealed"
    THEN ProcessFrom(set, items, i + 1, bid, opid, ty, wid)
    ELSE LET a == IF wid = None
                  THEN with_no_witness(items[i].seal, items[i].state, bid, opid, ty, i - 1)
                  ELSE with_witness(items[i].seal, wid[1], items[i].state, bid, opid, ty, i - 1)
         IN  ProcessFrom(PushAssignment(set, a), items, i + 1, bid, opid, ty, wid)

RECURSIVE ProcessKind(_, _, _, _, _, _, _)
\* The assignment types of one kind, processed into that kind's collection.
ProcessKind(set, kind, types, assignments, bid, opid, wid) ==
    IF types = {} THEN set
    ELSE LET ty == CHOOSE t \in types : TRUE
             next == IF assignments[ty].kind = kind
                     THEN ProcessFrom(set, assignments[ty].items, 1, bid, opid, ty, wid)
                     ELSE set
         IN  ProcessKind(next, kind, types \ {ty}, assignments, bid, opid, wid)

\* MemContractState::add_assignments
add_assignments(cs, bid, wid, opid, assignments) ==
    [cs EXCEPT
        !.rights = ProcessKind(@, "Declarative", DOMAIN assignments, assignments, bid, opid, wid),
        !.fungibles = ProcessKind(@, "Fungible", DOMAIN assignments, assignments, bid, opid, wid),
        !.data = ProcessKind(@, "Structured", DOMAIN assignments, assignments, bid, opid, wid)]

\* Mutant of AddGlobals: the items of the operation replace the known ones.
AddGlobalsLatest(global, ordop) ==
    [ty \in DOMAIN global |->
        IF ty \notin DOMAIN ordop.op.globals THEN global[ty]
        ELSE LET items == ordop.op.globals[ty]
                 outs == {GlobalOut(op_id(ordop.op), i - 1, OpWitness(ordop), ordop.op.nonce) :
                             i \in DOMAIN items}
             IN  [global[ty] EXCEPT !.known = [out \in outs |-> items[out.index + 1]]]]

\* The global items of one operation: index idx of type ty goes to the key
\* GlobalOut{index, op_witness, nonce, opid} of that type's map.
AddGlobals(global, ordop) ==
    [ty \in DOMAIN global |->
        IF ty \notin DOMAIN ordop.op.globals THEN global[ty]
        ELSE LET items == ordop.op.globals[ty]
                 outs == {GlobalOut(op_id(ordop.op), i - 1, OpWitness(ordop), ordop.op.nonce) :
                             i \in DOMAIN items}
             IN  [global[ty] EXCEPT !.known =
                    [out \in DOMAIN @ \cup outs |->
                        IF out \in outs THEN items[out.index + 1] ELSE @[out]]]]

\* MemContractState::add_operation
add_operation(cs, ordop) ==
    add_assignments([cs EXCEPT !.global = AddGlobals(@, ordop)],
                    ordop.bundle_id, ordop.witness_id, op_id(ordop.op),
                    ordop.op.assignments)

\* StateWriteProvider::register_contract followed by the writer's add_genesis
register_contract(st, sch, g) ==
    LET cid == contract_id(g)
        r == IF cid \in DOMAIN st.contracts
             THEN [ok |-> TRUE, map |-> st.contracts, present |-> TRUE]
             ELSE ConfinedInsert(st.contracts, cid, MemContractState(sch, cid), SmallMax)
    IN  IF ~r.ok THEN [ret |-> Err(Confinement), state |-> st]
        ELSE [ret |-> OkVal(<<>>),
              state |-> [st EXCEPT !.contracts =
                            [r.map EXCEPT ![cid] = add_operation(@, OrdGenesis(g))]]]

\* StateWriteProvider::update_contract: the contract a writer is bound to
update_contract(st, cid) == IF cid \in DOMAIN st.contracts THEN Some(cid) ELSE None

\* Mutant of add_transition: the operation is added, the witness is not.
add_transition_unwitnessed(st, cid, t, wid, ord, bid) ==
    [ret |-> OkVal(<<>>),
     state |-> [st EXCEPT !.contracts[cid] = add_operation(@, OrdTransition(t, wid, ord, bid))]]

\* ContractStateWrite::add_transition on the writer of contract cid: the
\* witness ordinal is written first, then the operation is added.
add_transition(st, cid, t, wid, ord, bid) ==
    LET w == ConfinedInsert(st.witnesses, wid, ord, LargeMax)
    IN  IF ~w.ok THEN [ret |-> Err(Confinement), state |-> st]
        ELSE [ret |-> OkVal(<<>>),
              state |-> [st EXCEPT
                          !.witnesses = w.map,
                          !.contracts[cid] = add_operation(@, OrdTransition(t, wid, ord, bid))]]

\* CloneNoPersistence for MemState: the witnesses and the contracts are
\* cloned, the invalid bundles start empty.
clone_no_persistence(st) ==
    [witnesses |-> st.witnesses, invalid_bundles |-> {}, contracts |-> st.contracts]

\* Mutant of upsert_witness: the invalid bundles are forgotten on the way.
upsert_witness_clearing(st, wid, ord) ==
    [ret |-> OkVal(<<>>),
     state |-> [st EXCEPT !.witnesses = Put(@, wid, ord), !.invalid_bundles = {}]]

\* StateWriteProvider::upsert_witness
upsert_witness(st, wid, ord) ==
    LET w == ConfinedInsert(st.witnesses, wid, ord, LargeMax)
    IN  IF ~w.ok THEN [ret |-> Err(Confinement), state |-> st]
        ELSE [ret |-> OkVal(<<>>), state |-> [st EXCEPT !.witnesses = w.map]]

\* Mutant of update_bundle: revalidating one bundle revalidates all of them.
update_bundle_clearing(st, bid, valid) ==
    IF valid
    THEN [ret |-> OkVal(<<>>), state |-> [st EXCEPT !.invalid_bundles = {}]]
    ELSE [ret |-> OkVal(<<>>), state |-> [st EXCEPT !.invalid_bundles = @ \cup {bid}]]

\* StateWriteProvider::update_bundle
update_bundle(st, bid, valid) ==
    IF valid
    THEN [ret |-> OkVal(<<>>), state |-> [st EXCEPT !.invalid_bundles = @ \ {bid}]]
    ELSE LET r == ConfinedPush(st.invalid_bundles, bid, LargeMax)
         IN  IF ~r.ok THEN [ret |-> Err(Confinement), state |-> st]
             ELSE [ret |-> OkVal(<<>>), state |-> [st EXCEPT !.invalid_bundles = r.set]]

\* Mutant of RefersTo: the structured-data assignments are not looked at.
RefersToNoData(cs, id) ==
    \/ \E ty \in DOMAIN cs.global :
          \E out \in DOMAIN cs.global[ty].known : out_witness_id(out) = Some(id)
    \/ \E a \in cs.rights : a.witness = Some(id)
    \/ \E a \in cs.fungibles : a.witness = Some(id)

\* Does the contract refer to the witness transaction anywhere?
RefersTo(cs, id) ==
    \/ \E ty \in DOMAIN cs.global :
          \E out \in DOMAIN cs.global[ty].known : out_witness_id(out) = Some(id)
    \/ \E a \in cs.rights : a.witness = Some(id)
    \/ \E a \in cs.fungibles : a.witness = Some(id)
    \/ \E a \in cs.data : a.witness = Some(id)

\* StateReadProvider::contract_state: the contract with the witness filter
\* narrowed to the witnesses it refers to, and a copy of the invalid bundles.
contract_state(st, cid) ==
    IF cid \notin DOMAIN st.contracts THEN Err(UnknownContract(cid))
    ELSE LET unfiltered == st.contracts[cid]
             ids == {id \in DOMAIN st.witnesses : RefersTo(unfiltered, id)}
         IN  OkVal([filter |-> [id \in ids |-> st.witnesses[id]],
                    invalid_bundles |-> st.invalid_bundles,
                    unfiltered |-> unfiltered])

\* OutputAssignment::check_witness
check_witness(a, filter) ==
    IF a.witness = None THEN TRUE
    ELSE ~(a.witness[1] \notin DOMAIN filter \/ filter[a.witness[1]] = Archived)

\* OutputAssignment::check_bundle
check_bundle(a, invalid) ==
    IF a.bundle_id = None THEN TRUE ELSE a.bundle_id[1] \notin invalid

\* The assignments of a collection that pass both filters
Filtered(mc, set) ==
    {a \in set : check_witness(a, mc.filter) /\ check_bundle(a, mc.invalid_bundles)}

\* The assignments of a collection at an outpoint and of a type that pass
\* both filters
FilteredAt(mc, set, outpoint, ty) ==
    Filtered(mc, {a \in set : to_outpoint(a.seal) = outpoint /\ a.opout.ty = ty})

\* The states of a set of assignments, each with the number of assignments
\* that carry it
StatesOf(set) ==
    [v \in {a.state : a \in set} |-> Cardinality({a \in set : a.state = v})]

\* ContractStateRead::rights_all, fungible_all, data_all
rights_all(mc) == Filtered(mc, mc.unfiltered.rights)
fungible_all(mc) == Filtered(mc, mc.unfiltered.fungibles)
data_all(mc) == Filtered(mc, mc.unfiltered.data)

\* ContractStateAccess::rights, fungible, data
rights(mc, outpoint, ty) == Cardinality(FilteredAt(mc, mc.unfiltered.rights, outpoint, ty))
fungible(mc, outpoint, ty) == StatesOf(FilteredAt(mc, mc.unfiltered.fungibles, outpoint, ty))
data(mc, outpoint, ty) == StatesOf(FilteredAt(mc, mc.unfiltered.data, outpoint, ty))

-----------------------------------------------------------------------------
(* Global state iteration *)

\* Two transitions of contract A that carry global state only: the first has
\* two items of the type, the second one.
TransitionC ==
    [name |-> "transitionC", contract |-> "genesisA", nonce |-> 1,
     transition_type |-> Some("transfer"),
     globals |-> ("globalA" :> <<"g2", "g3">>),
     assignments |-> EmptyMap]
TransitionD ==
    [name |-> "transitionD", contract |-> "genesisA", nonce |-> 2,
     transition_type |-> Some("issue"),
     globals |-> ("globalA" :> <<"g4">>),
     assignments |-> EmptyMap]
GlobalTransition == {TransitionC, TransitionD}

\* The bundle a transition is part of: a bundle id commits to its transitions,
\* so an operation has one bundle.
BundleOf(t) ==
    IF t = TransitionC THEN <<"BundleId", "inputsA">> ELSE <<"BundleId", "inputsB">>

\* Byte order of the ids, as the derived orders compare them
TxidRank(id) == id.lock_time
OpIdRank(opid) ==
    CHOOSE i \in 1..5 :
        <<"genesisA", "genesisB", "transitionA", "transitionC", "transitionD">>[i] = opid[2]
TypeRank(ty) == IF ty = Some("transfer") THEN 1 ELSE 0

RECURSIVE LexLess(_, _)
\* Lexicographic order of two number sequences of one length
LexLess(a, b) ==
    IF a = <<>> THEN FALSE
    ELSE IF Head(a) # Head(b) THEN Head(a) < Head(b)
    ELSE LexLess(Tail(a), Tail(b))

\* The order of GlobalOut keys in the `known` map: its fields in turn, a
\* genesis witness before a transition one.
GlobalOutKey(out) ==
    <<out.index,
      IF out.op_witness.witness_id = None THEN 0 ELSE 1,
      IF out.op_witness.witness_id = None THEN 0
      ELSE TxidRank(out.op_witness.witness_id[1]),
      TypeRank(out.op_witness.ty),
      out.nonce,
      OpIdRank(out.opid)>>
GlobalOutLess(a, b) == LexLess(GlobalOutKey(a), GlobalOutKey(b))

RECURSIVE Rev(_)
\* BTreeMap::iter().rev() over a set of keys: the largest key first
Rev(keys) ==
    IF keys = {} THEN <<>>
    ELSE LET top == CHOOSE k \in keys : \A o \in keys \ {k} : GlobalOutLess(o, k)
         IN  <<top>> \o Rev(keys \ {top})

\* GlobalOrd::genesis and GlobalOrd::transition
GlobalOrdGenesis(idx) ==
    [genesis |-> TRUE, witness |-> None, ty |-> None, nonce |-> 0,
     opid |-> None, idx |-> idx]
GlobalOrdTransition(opid, idx, ty, nonce, ord) ==
    [genesis |-> FALSE, witness |-> Some(ord), ty |-> ty, nonce |-> nonce,
     opid |-> Some(opid), idx |-> idx]

\* Iterator::take
Take(seq, n) == SubSeq(seq, 1, IF Len(seq) < n THEN Len(seq) ELSE n)

\* Iterator::skip
Skip(seq, n) == SubSeq(seq, n + 1, Len(seq))

RECURSIVE FilterMap(_, _, _)
\* The filter_map of the constructor closure: a genesis item passes, a
\* transition item passes with the ordinal the filter holds for its witness
\* and is dropped when the filter holds none. Each pair is listed with the
\* key of the entry its data borrows from.
FilterMap(outs, known, filter) ==
    IF outs = <<>> THEN <<>>
    ELSE LET out == Head(outs)
             rest == FilterMap(Tail(outs), known, filter)
         IN  IF out.op_witness.witness_id = None
             THEN <<[ord |-> GlobalOrdGenesis(out.index), data |-> known[out],
                     out |-> out]>> \o rest
             ELSE IF out.op_witness.witness_id[1] \notin DOMAIN filter THEN rest
             ELSE <<[ord |-> GlobalOrdTransition(out.opid, out.index, out.op_witness.ty,
                                 out.nonce, filter[out.op_witness.witness_id[1]]),
                     data |-> known[out], out |-> out]>> \o rest

\* The constructor closure of MemContract::global
constructor(mc, ty) ==
    LET st == mc.unfiltered.global[ty]
    IN  Take(FilterMap(Rev(DOMAIN st.known), st.known, mc.filter), st.limit)

UnknownGlobalStateType(ty) == [tag |-> "UnknownGlobalStateType", ty |-> ty]

\* No iterator is held.
NoIter == [tag |-> "None"]

\* ContractStateAccess::global: the Iter it builds
global(mc, cid, ty) ==
    IF ty \notin DOMAIN mc.unfiltered.global THEN Err(UnknownGlobalStateType(ty))
    ELSE OkVal([tag |-> "Iter", cid |-> cid, ty |-> ty,
                iter |-> constructor(mc, ty), last |-> None, depth |-> 0])

\* GlobalStateIter::size: the fresh scan goes into the Iter, what was left of
\* the scan it held is counted.
size(mc, it) ==
    [ret |-> Len(it.iter), it |-> [it EXCEPT !.iter = constructor(mc, it.ty)]]

\* GlobalStateIter::prev
prev(it) ==
    LET nxt == IF it.iter = <<>> THEN None ELSE Some(Head(it.iter))
    IN  [ret |-> nxt,
         it |-> [it EXCEPT !.last = nxt,
                           !.iter = IF @ = <<>> THEN <<>> ELSE Tail(@),
                           !.depth = @ + 1]]

\* GlobalStateIter::last
last(it) == it.last

\* GlobalStateIter::reset
reset(mc, it, depth) ==
    IF it.depth < depth THEN [it EXCEPT !.iter = Skip(@, depth - depth)]
    ELSE IF it.depth = depth THEN it
    ELSE [it EXCEPT !.iter = Skip(constructor(mc, it.ty), depth)]

-----------------------------------------------------------------------------
(* Replay of one contract's operations *)

\* No replay is under way.
NoReplay == [tag |-> "None"]

\* The transitions of contract A that are replayed.  TransitionD spends an
\* output of TransitionC; the others spend outputs of the genesis.
ReplayTransition == {TransitionA, TransitionC, TransitionD}
ReplayParents(t) == IF t = TransitionD THEN {TransitionC} ELSE {}

RECURSIVE UpsertAll(_, _)
\* upsert_witness for every entry of a witness-ordinal map
UpsertAll(st, ords) ==
    IF DOMAIN ords = {} THEN st
    ELSE LET id == CHOOSE i \in DOMAIN ords : TRUE
         IN  UpsertAll(upsert_witness(st, id, ords[id]).state,
                       [i \in DOMAIN ords \ {id} |-> ords[i]])

RECURSIVE UpdateAll(_, _, _)
\* update_bundle for every bundle: invalid when it is in the set given
UpdateAll(st, bids, invalid) ==
    IF bids = {} THEN st
    ELSE LET bid == CHOOSE b \in bids : TRUE
         IN  UpdateAll(update_bundle(st, bid, bid \notin invalid).state,
                       bids \ {bid}, invalid)

\* What iterating global(ty) of a contract yields, item by item
GlobalScan(st, cid, ty) == constructor(contract_state(st, cid).val, ty)

-----------------------------------------------------------------------------
(* Witness resolvers *)

\* WitnessResolverError and WitnessStatus
WrongChainNet == [tag |-> "WrongChainNet"]
ResolverIssue(id) == [tag |-> "ResolverIssue", txid |-> id]
InvalidResolverData == [tag |-> "InvalidResolverData"]
Unresolved == [tag |-> "Unresolved"]
Resolved(tx, ord) == [tag |-> "Resolved", tx |-> tx, ord |-> ord]

\* The process aborts: an arithmetic overflow in a build that checks for it.
Panic == [tag |-> "Panic"]

\* WitnessPos::bitcoin: no position for a time before the first block's
GenesisTimestamp == 1
BlockTimes == {0, 1}
WitnessPos(height, timestamp) ==
    IF timestamp < GenesisTimestamp THEN None
    ELSE Some([height |-> height, timestamp |-> timestamp])
MinedAt(pos) == [tag |-> "Mined", pos |-> pos]

\* NonZeroU32::new followed by WitnessPos::bitcoin, as every adapter ends
MinedOrInvalid(tx, h, t) ==
    IF h = 0 \/ WitnessPos(h, t) = None THEN Err(InvalidResolverData)
    ELSE OkVal(Resolved(tx, MinedAt(WitnessPos(h, t)[1])))

\* One request to the remote; `at` is the height asked for, if any.
Lookup(name, at) == [call |-> name, at |-> at]

\* ChainNet.  The adapters know the genesis of the five Bitcoin networks.
BitcoinChainNets ==
    {"BitcoinMainnet", "BitcoinTestnet3", "BitcoinTestnet4", "BitcoinSignet", "BitcoinRegtest"}
ChainNets == BitcoinChainNets \cup {"LiquidMainnet"}
genesis_block_hash(chain_net) == <<"BlockHash", chain_net>>

\* What a remote answers to check_chain_net's requests: the hash of its
\* block 0 (None: the request fails), and its answer to a verbose
\* transaction query for the genesis coinbase.
CheckAnswers ==
    [block_hash : {None} \cup {Some(genesis_block_hash(c)) : c \in ChainNets},
     verbose : {"ok", "coinbase", "unsupported"}]

\* What an Electrum remote answers while a witness is resolved: the tip
\* height at block_headers_subscribe (None: the request fails), the outcome
\* of the verbose blockchain.transaction.get with its hex, confirmations
\* (-1: not a u32) and blocktime fields, the number of headers
\* block_headers_pop gives, and the height of the one block for which
\* transaction_get_merkle finds the transaction.
ElectrumAnswers ==
    [header : {None} \cup {Some(h) : h \in 0..MaxTip},
     tx : {"unknown", "error"},
     hex : {None}, confirmations : {None}, blocktime : {None},
     forward : {0}, merkle : {None}]
    \cup
    [header : {Some(h) : h \in 0..MaxTip},
     tx : {"details"},
     hex : {None} \cup {Some(t) : t \in TransactionsOf(0)},
     confirmations : {None} \cup {Some(n) : n \in (-1)..(MaxTip + 1)},
     blocktime : {None} \cup {Some(t) : t \in BlockTimes},
     forward : 0..MaxForward,
     merkle : {None} \cup {Some(h) : h \in 0..(MaxTip + MaxForward)}]

\* What an Esplora remote answers: get_tx ("error", or the transaction if it
\* knows one) and get_tx_status.
EsploraAnswers ==
    [tx : {"error", "none"}, found : {None}, status : {"ok"},
     block_height : {None}, block_time : {None}]
    \cup
    [tx : {"some"}, found : {Some(t) : t \in TransactionsOf(0)}, status : {"error"},
     block_height : {None}, block_time : {None}]
    \cup
    [tx : {"some"}, found : {Some(t) : t \in TransactionsOf(0)}, status : {"ok"},
     block_height : {None} \cup {Some(h) : h \in 0..MaxTip},
     block_time : {None} \cup {Some(t) : t \in BlockTimes}]

\* How the build treats integer overflow and how wide isize is
Builds == {"debug", "release64", "release32"}

\* ElectrumClient::check_chain_net
electrum_check_chain_net(r, chain_net) ==
    IF r.block_hash = None
    THEN [ret |-> Err(ResolverIssue(None)), lookups |-> <<Lookup("block_header", Some(0))>>]
    ELSE IF genesis_block_hash(chain_net) # r.block_hash[1]
    THEN [ret |-> Err(WrongChainNet), lookups |-> <<Lookup("block_header", Some(0))>>]
    ELSE IF chain_net \notin BitcoinChainNets
    THEN [ret |-> Err(WrongChainNet), lookups |-> <<Lookup("block_header", Some(0))>>]
    ELSE [ret |-> IF r.verbose = "unsupported" THEN Err(ResolverIssue(None)) ELSE Ok,
          lookups |-> <<Lookup("block_header", Some(0)), Lookup("transaction.get", None)>>]

\* const SAFETY_MARGIN of ElectrumClient::resolve_witness
SAFETY_MARGIN == 1

\* The offsets probed: 1..=forward + 1, then for i in 1..=SAFETY_MARGIN the
\* pair i + forward + 1 and 1 - i
ProbeOffsets(forward) ==
    [k \in 1..(forward + 1 + 2 * SAFETY_MARGIN) |->
        IF k <= forward + 1 THEN k
        ELSE LET j == k - (forward + 1)
                 i == (j + 1) \div 2
             IN  IF j % 2 = 1 THEN i + forward + 1 ELSE 1 - i]

\* A height no block has: what a number that is negative, or that wrapped
\* around 2^32, is when the request takes it as usize.
OutOfRange == -1

\* (tip_height - confirmations) as isize, then (height + offset) as usize.
\* The u32 subtraction wraps when the confirmations exceed the tip: with a
\* 64-bit isize every height probed is then above 2^32, with a 32-bit one
\* the wrapped number is the negative difference again.
ProbeHeight(tip, confirmations, offset, build) ==
    IF confirmations > tip /\ build = "release64" THEN OutOfRange
    ELSE IF tip - confirmations + offset < 0 THEN OutOfRange
    ELSE tip - confirmations + offset

\* The heights find_map asks transaction_get_merkle for: up to the first
\* one that the remote has the transaction at
ProbesMade(r, build) ==
    LET offs == ProbeOffsets(r.forward)
        at(k) == ProbeHeight(r.header[1], r.confirmations[1], offs[k], build)
        hits == {k \in DOMAIN offs : r.merkle = Some(at(k))}
        n == IF hits = {} THEN Len(offs) ELSE CHOOSE k \in hits : \A j \in hits : k <= j
    IN  [heights |-> [k \in 1..n |-> at(k)], found |-> hits # {}]

\* ElectrumClient::resolve_witness
electrum_resolve_witness(r, id, build) ==
    LET subscribe == <<Lookup("block_headers_subscribe", None)>>
        first == subscribe \o <<Lookup("transaction.get", None)>>
        popped == first \o <<Lookup("block_headers_pop", None)>>
    IN  IF r.header = None
        THEN [ret |-> Err(ResolverIssue(Some(id))), lookups |-> subscribe]
        ELSE IF r.tx = "unknown" THEN [ret |-> OkVal(Unresolved), lookups |-> first]
        ELSE IF r.tx = "error"
        THEN [ret |-> Err(ResolverIssue(Some(id))), lookups |-> first]
        ELSE IF r.hex = None THEN [ret |-> Err(InvalidResolverData), lookups |-> popped]
        ELSE IF r.confirmations = None
        THEN [ret |-> OkVal(Resolved(r.hex[1], Tentative)), lookups |-> popped]
        ELSE IF r.confirmations[1] < 0
        THEN [ret |-> Err(InvalidResolverData), lookups |-> popped]
        ELSE IF r.confirmations[1] = 0
        THEN [ret |-> OkVal(Resolved(r.hex[1], Tentative)), lookups |-> popped]
        ELSE IF r.blocktime = None
        THEN [ret |-> Err(InvalidResolverData), lookups |-> popped]
        ELSE IF r.confirmations[1] > r.header[1] /\ build = "debug"
        THEN [ret |-> Panic, lookups |-> popped]
        ELSE LET probes == ProbesMade(r, build)
                 asked == popped \o [k \in DOMAIN probes.heights |->
                                        Lookup("transaction_get_merkle", Some(probes.heights[k]))]
             IN  IF ~probes.found
                 THEN [ret |-> Err(ResolverIssue(Some(id))), lookups |-> asked]
                 ELSE [ret |-> MinedOrInvalid(r.hex[1], r.merkle[1], r.blocktime[1]),
                       lookups |-> asked]

\* EsploraClient::check_chain_net
esplora_check_chain_net(r, chain_net) ==
    IF r.block_hash = None
    THEN [ret |-> Err(ResolverIssue(None)), lookups |-> <<Lookup("get_block_hash", Some(0))>>]
    ELSE IF genesis_block_hash(chain_net) # r.block_hash[1]
    THEN [ret |-> Err(WrongChainNet), lookups |-> <<Lookup("get_block_hash", Some(0))>>]
    ELSE [ret |-> Ok, lookups |-> <<Lookup("get_block_hash", Some(0))>>]

\* EsploraClient::resolve_witness
esplora_resolve_witness(r, id) ==
    LET first == <<Lookup("get_tx", None)>>
        both == first \o <<Lookup("get_tx_status", None)>>
    IN  IF r.tx = "error" THEN [ret |-> Err(ResolverIssue(Some(id))), lookups |-> first]
        ELSE IF r.tx = "none" THEN [ret |-> OkVal(Unresolved), lookups |-> first]
        ELSE IF r.status = "error"
        THEN [ret |-> Err(ResolverIssue(Some(id))), lookups |-> both]
        ELSE IF r.block_height # None /\ r.block_time # None
        THEN [ret |-> MinedOrInvalid(r.found[1], r.block_height[1], r.block_time[1]),
              lookups |-> both]
        ELSE [ret |-> OkVal(Resolved(r.found[1], Tentative)), lookups |-> both]

\* MemPoolClient::check_chain_net and resolve_witness
mempool_check_chain_net(r, chain_net) == esplora_check_chain_net(r, chain_net)
mempool_resolve_witness(r, id) == esplora_resolve_witness(r, id)

\* The adapters an AnyResolver wraps, and what the remote of each may answer
Adapters == {"electrum", "esplora", "mempool"}
ResolveAnswers(adapter) ==
    IF adapter = "electrum" THEN ElectrumAnswers ELSE EsploraAnswers

\* dyn ResolveWitness: the call goes to the adapter wrapped
inner_resolve_witness(adapter, r, id, build) ==
    IF adapter = "electrum" THEN electrum_resolve_witness(r, id, build)
    ELSE IF adapter = "esplora" THEN esplora_resolve_witness(r, id)
    ELSE mempool_resolve_witness(r, id)
inner_check_chain_net(adapter, r, chain_net) ==
    IF adapter = "electrum" THEN electrum_check_chain_net(r, chain_net)
    ELSE IF adapter = "esplora" THEN esplora_check_chain_net(r, chain_net)
    ELSE mempool_check_chain_net(r, chain_net)

\* No resolver is built.
NoResolver == [tag |-> "None"]

\* AnyResolver::electrum_blocking, esplora_blocking, mempool_blocking
AnyResolver(adapter) == [inner |-> adapter, consignment_txes |-> EmptyMap]

\* The consignments given to add_consignment_txes: the public witnesses of
\* their bundles
ConsignmentBundles == SUBSET PubWitnessesOf(0)

\* AnyResolver::add_consignment_txes
add_consignment_txes(rs, bundles) ==
    LET txs == {w.tx : w \in {b \in bundles : b.tag = "Tx"}}
    IN  [rs EXCEPT !.consignment_txes =
            [id \in DOMAIN @ \cup {compute_txid(t) : t \in txs} |->
                IF \E t \in txs : compute_txid(t) = id
                THEN CHOOSE t \in txs : compute_txid(t) = id
                ELSE @[id]]]

\* Mutant of resolve_witness: the adapter is asked first.
resolve_witness_inner_first(rs, r, id, build) ==
    LET got == inner_resolve_witness(rs.inner, r, id, build)
    IN  IF got.ret = OkVal(Unresolved) /\ id \in DOMAIN rs.consignment_txes
        THEN [ret |-> OkVal(Resolved(rs.consignment_txes[id], Tentative)),
              lookups |-> got.lookups, inner |-> 1]
        ELSE [ret |-> got.ret, lookups |-> got.lookups, inner |-> 1]

\* ResolveWitness::resolve_witness for AnyResolver; `inner` counts the calls
\* of the adapter.
resolve_witness(rs, r, id, build) ==
    IF id \in DOMAIN rs.consignment_txes
    THEN [ret |-> OkVal(Resolved(rs.consignment_txes[id], Tentative)),
          lookups |-> <<>>, inner |-> 0]
    ELSE LET got == inner_resolve_witness(rs.inner, r, id, build)
         IN  [ret |-> got.ret, lookups |-> got.lookups, inner |-> 1]

\* ResolveWitness::check_chain_net for AnyResolver
check_chain_net(rs, r, chain_net) ==
    LET got == inner_check_chain_net(rs.inner, r, chain_net)
    IN  [ret |-> got.ret, lookups |-> got.lookups, inner |-> 1]

-----------------------------------------------------------------------------
(* MemIndex *)

\* The operations and bundles the index is driven with
IndexOpIds == {op_id(t) : t \in Transition}
SpendingOpIds == {op_id(TransitionA)}

\* MemIndex::in_memory
EmptyIndex ==
    [op_bundle_children_index |-> EmptyMap, op_bundle_index |-> EmptyMap,
     bundle_contract_index |-> EmptyMap, bundle_witness_index |-> EmptyMap,
     contract_index |-> EmptyMap, terminal_index |-> EmptyMap]

\* ContractIndex::default
EmptyContractIndex == [public_opouts |-> {}, outpoint_opouts |-> EmptyMap]

\* IndexInconsistency variants, as IndexReadError / IndexWriteError carry them
DistinctBundleContract(bid, present, expected) ==
    [tag |-> "DistinctBundleContract", bundle_id |-> bid,
     present |-> present, expected |-> expected]
DistinctBundleOp(opid, present, expected) ==
    [tag |-> "DistinctBundleOp", opid |-> opid,
     present |-> present, expected |-> expected]
BundleAbsent(opid) == [tag |-> "BundleAbsent", opid |-> opid]
BundleWitnessUnknown(bid) == [tag |-> "BundleWitnessUnknown", bundle_id |-> bid]
BundleContractUnknown(bid) == [tag |-> "BundleContractUnknown", bundle_id |-> bid]

\* IndexReadProvider::bundle_id_for_op
bundle_id_for_op(ix, opid) ==
    IF opid \in DOMAIN ix.op_bundle_index
    THEN OkVal(ix.op_bundle_index[opid])
    ELSE Err(BundleAbsent(opid))

\* IndexReadProvider::bundle_ids_children_of_op
bundle_ids_children_of_op(ix, opid) ==
    IF opid \in DOMAIN ix.op_bundle_children_index
    THEN OkVal(ix.op_bundle_children_index[opid])
    ELSE Err(BundleAbsent(opid))

\* IndexReadProvider::bundle_info
bundle_info(ix, bid) ==
    IF bid \notin DOMAIN ix.bundle_witness_index THEN Err(BundleWitnessUnknown(bid))
    ELSE IF bid \notin DOMAIN ix.bundle_contract_index THEN Err(BundleContractUnknown(bid))
    ELSE OkVal([witness_ids |-> ix.bundle_witness_index[bid],
                contract_id |-> ix.bundle_contract_index[bid]])

\* IndexWriteProvider::register_contract of MemIndex
index_register_contract(ix, cid) ==
    IF cid \notin DOMAIN ix.contract_index
    THEN LET r == ConfinedInsert(ix.contract_index, cid, EmptyContractIndex, SmallMax)
         IN  IF r.ok THEN [ret |-> OkVal(TRUE), index |-> [ix EXCEPT !.contract_index = r.map]]
             ELSE [ret |-> Err(Confinement), index |-> ix]
    ELSE [ret |-> OkVal(FALSE), index |-> ix]

\* Mutant of register_bundle: the contract association is not looked at and
\* the bundle is handed to the contract of the call.
register_bundle_unchecked(ix, bid, wid, cid) ==
    [ret |-> OkVal(bid \notin DOMAIN ix.bundle_contract_index),
     index |-> [ix EXCEPT
                 !.bundle_witness_index =
                    Put(@, bid, (IF bid \in DOMAIN @ THEN @[bid] ELSE {}) \cup {wid}),
                 !.bundle_contract_index = Put(@, bid, cid)]]

\* Mutant of register_bundle: the witness of the call replaces the stored ones.
register_bundle_replacing(ix, bid, wid, cid) ==
    IF bid \in DOMAIN ix.bundle_contract_index /\ ix.bundle_contract_index[bid] # cid
    THEN [ret |-> Err(DistinctBundleContract(bid, ix.bundle_contract_index[bid], cid)),
          index |-> ix]
    ELSE [ret |-> OkVal(bid \notin DOMAIN ix.bundle_contract_index),
          index |-> [ix EXCEPT !.bundle_witness_index = Put(@, bid, {wid}),
                               !.bundle_contract_index = Put(@, bid, cid)]]

\* IndexWriteProvider::register_bundle: the contract check, then the witness
\* is pushed to the bundle's entry, then the contract is stored.
register_bundle(ix, bid, wid, cid) ==
    IF bid \in DOMAIN ix.bundle_contract_index /\ ix.bundle_contract_index[bid] # cid
    THEN [ret |-> Err(DistinctBundleContract(bid, ix.bundle_contract_index[bid], cid)),
          index |-> ix]
    ELSE LET e == ConfinedInsert(ix.bundle_witness_index, bid,
                                 IF bid \in DOMAIN ix.bundle_witness_index
                                 THEN ix.bundle_witness_index[bid] ELSE {},
                                 LargeMax)
         IN  IF ~e.ok THEN [ret |-> Err(Confinement), index |-> ix]
             ELSE
             LET p == ConfinedPush(e.map[bid], wid, LargeMax)
                 ix1 == [ix EXCEPT !.bundle_witness_index = Put(e.map, bid, p.set)]
             IN  IF ~p.ok THEN [ret |-> Err(Confinement), index |-> ix1]
                 ELSE
                 LET c == ConfinedInsert(ix1.bundle_contract_index, bid, cid, LargeMax)
                 IN  IF ~c.ok THEN [ret |-> Err(Confinement), index |-> ix1]
                     ELSE [ret |-> OkVal(~c.present),
                           index |-> [ix1 EXCEPT !.bundle_contract_index = c.map]]

\* Mutant of register_operation: the stored bundle is overwritten.
register_operation_overwriting(ix, opid, bid) ==
    [ret |-> OkVal(opid \notin DOMAIN ix.op_bundle_index),
     index |-> [ix EXCEPT !.op_bundle_index = Put(@, opid, bid)]]

\* IndexWriteProvider::register_operation
register_operation(ix, opid, bid) ==
    IF opid \in DOMAIN ix.op_bundle_index /\ ix.op_bundle_index[opid] # bid
    THEN [ret |-> Err(DistinctBundleOp(opid, ix.op_bundle_index[opid], bid)),
          index |-> ix]
    ELSE LET r == ConfinedInsert(ix.op_bundle_index, opid, bid, LargeMax)
         IN  IF ~r.ok THEN [ret |-> Err(Confinement), index |-> ix]
             ELSE [ret |-> OkVal(~r.present),
                   index |-> [ix EXCEPT !.op_bundle_index = r.map]]

\* Mutant of register_spending: the bundle of the call replaces the children
\* stored for the operation.
register_spending_replacing(ix, opid, bid) ==
    [ret |-> OkVal(opid \in DOMAIN ix.op_bundle_children_index),
     index |-> [ix EXCEPT !.op_bundle_children_index = Put(@, opid, {bid})]]

\* IndexWriteProvider::register_spending
register_spending(ix, opid, bid) ==
    IF opid \in DOMAIN ix.op_bundle_children_index
    THEN LET p == ConfinedPush(ix.op_bundle_children_index[opid], bid, SmallMax)
         IN  IF ~p.ok THEN [ret |-> Err(Confinement), index |-> ix]
             ELSE [ret |-> OkVal(TRUE),
                   index |-> [ix EXCEPT !.op_bundle_children_index[opid] = p.set]]
    ELSE LET r == ConfinedInsert(ix.op_bundle_children_index, opid, {bid}, LargeMax)
         IN  IF ~r.ok THEN [ret |-> Err(Confinement), index |-> ix]
             ELSE [ret |-> OkVal(FALSE),
                   index |-> [ix EXCEPT !.op_bundle_children_index = r.map]]

\* IndexInconsistency::ContractAbsent and IndexInconsistency::OutpointUnknown
ContractAbsent(cid) == [tag |-> "ContractAbsent", contract_id |-> cid]
OutpointUnknown(outpoint, cid) ==
    [tag |-> "OutpointUnknown", outpoint |-> outpoint, contract_id |-> cid]

\* MediumOrdSet<Opout>: the opouts of the operations at hand, and the number
\* of further opouts, of operations that are not followed one by one.
MediumMax == 16777215
MediumSet(opouts, others) == [opouts |-> opouts, others |-> others]
MediumLen(set) == Cardinality(set.opouts) + set.others
medium_bset(opout) == MediumSet({opout}, 0)
MediumPush(set, opout) ==
    IF MediumLen(set) >= MediumMax
    THEN [ok |-> FALSE, set |-> set]
    ELSE [ok |-> TRUE, set |-> [set EXCEPT !.opouts = @ \cup {opout}]]

\* Confined map removal
MapRemove(m, k) == [x \in DOMAIN m \ {k} |-> m[x]]

\* The first loop of index_genesis_assignments (wid = None) and of
\* index_transition_assignments (wid = Some(witness_id)), from item i on:
\* the opout of every revealed assignment is pushed to the entry of its
\* output seal; the loop ends at the first push or insert that fails.
RECURSIVE index_outpoints(_, _, _, _, _, _)
index_outpoints(cix, vec, opid, ty, wid, i) ==
    IF i > Len(vec) THEN [ok |-> TRUE, index |-> cix]
    ELSE
    LET opout == Opout(opid, ty, i - 1)
        assign == vec[i]
    IN  IF assign.tag # "Revealed"
        THEN index_outpoints(cix, vec, opid, ty, wid, i + 1)
        ELSE
        LET output == IF wid = None THEN to_output_seal(assign.seal)
                      ELSE to_output_seal_or_default(assign.seal, wid[1])
        IN  IF output \in DOMAIN cix.outpoint_opouts
            THEN LET p == MediumPush(cix.outpoint_opouts[output], opout)
                 IN  IF ~p.ok THEN [ok |-> FALSE, index |-> cix]
                     ELSE index_outpoints(
                              [cix EXCEPT !.outpoint_opouts[output] = p.set],
                              vec, opid, ty, wid, i + 1)
            ELSE LET r == ConfinedInsert(cix.outpoint_opouts, output,
                                         medium_bset(opout), LargeMax)
                 IN  IF ~r.ok THEN [ok |-> FALSE, index |-> cix]
                     ELSE index_outpoints([cix EXCEPT !.outpoint_opouts = r.map],
                                          vec, opid, ty, wid, i + 1)

\* MemIndex::add_terminal: the entry of the seal is taken out of the map,
\* the opout is pushed to it and the entry is put back.
add_terminal(ix, seal, opout) ==
    IF seal \in DOMAIN ix.terminal_index
    THEN LET removed == [ix EXCEPT !.terminal_index = MapRemove(@, seal)]
             p == MediumPush(ix.terminal_index[seal], opout)
         IN  IF ~p.ok THEN [ret |-> Err(Confinement), index |-> removed]
             ELSE [ret |-> OkVal(<<>>),
                   index |-> [removed EXCEPT !.terminal_index = Put(@, seal, p.set)]]
    ELSE LET r == ConfinedInsert(ix.terminal_index, seal, medium_bset(opout), LargeMax)
         IN  IF ~r.ok THEN [ret |-> Err(Confinement), index |-> ix]
             ELSE [ret |-> OkVal(<<>>), index |-> [ix EXCEPT !.terminal_index = r.map]]

\* MemIndex::extend_terminals, from item i on
RECURSIVE extend_terminals(_, _, _, _, _)
extend_terminals(ix, vec, opid, ty, i) ==
    IF i > Len(vec) THEN [ret |-> OkVal(<<>>), index |-> ix]
    ELSE
    LET opout == Opout(opid, ty, i - 1)
        assign == vec[i]
    IN  IF assign.tag # "ConfidentialSeal"
        THEN extend_terminals(ix, vec, opid, ty, i + 1)
        ELSE LET r == add_terminal(ix, assign.seal, opout)
             IN  IF r.ret.tag # "Ok" THEN r
                 ELSE extend_terminals(r.index, vec, opid, ty, i + 1)

\* The body shared by index_genesis_assignments and index_transition_assignments
index_assignments(ix, cid, vec, opid, ty, wid) ==
    IF cid \notin DOMAIN ix.contract_index
    THEN [ret |-> Err(ContractAbsent(cid)), index |-> ix]
    ELSE LET o == index_outpoints(ix.contract_index[cid], vec, opid, ty, wid, 1)
             ix1 == [ix EXCEPT !.contract_index[cid] = o.index]
         IN  IF ~o.ok THEN [ret |-> Err(Confinement), index |-> ix1]
             ELSE extend_terminals(ix1, vec, opid, ty, 1)

\* Mutant of index_genesis_assignments: a contract that is not registered is
\* registered on the way.
index_genesis_assignments_registering(ix, cid, vec, opid, ty) ==
    index_assignments(index_register_contract(ix, cid).index, cid, vec, opid, ty, None)

\* IndexWriteProvider::index_genesis_assignments
index_genesis_assignments(ix, cid, vec, opid, ty) ==
    index_assignments(ix, cid, vec, opid, ty, None)

\* IndexWriteProvider::index_transition_assignments
index_transition_assignments(ix, cid, vec, opid, ty, wid) ==
    index_assignments(ix, cid, vec, opid, ty, Some(wid))

\* Mutant of contracts_assigning: every contract of the index is yielded.
contracts_assigning_all(ix, outpoints) ==
    [cid \in DOMAIN ix.contract_index |-> Cardinality(outpoints)]

\* IndexReadProvider::contracts_assigning: the contract ids the iterator
\* yields, each with the number of times it is yielded (once for every one
\* of the outpoints that the contract has an entry for).
contracts_assigning(ix, outpoints) ==
    LET hits(cid) ==
            {o \in outpoints :
                \E seal \in DOMAIN ix.contract_index[cid].outpoint_opouts :
                    to_outpoint(seal) = o}
    IN  [cid \in {c \in DOMAIN ix.contract_index : hits(c) # {}} |->
            Cardinality(hits(cid))]

\* IndexReadProvider::public_opouts
public_opouts(ix, cid) ==
    IF cid \notin DOMAIN ix.contract_index THEN Err(ContractAbsent(cid))
    ELSE OkVal(ix.contract_index[cid].public_opouts)

\* IndexReadProvider::opouts_by_outputs, over the outpoints from the i-th on;
\* the outpoints are looked up in the order they are given.
RECURSIVE opouts_by_outputs_from(_, _, _, _, _)
opouts_by_outputs_from(ix, cid, outpoints, i, opouts) ==
    IF i > Len(outpoints) THEN OkVal(opouts)
    ELSE
    LET output == outpoints[i]
        found == {seal \in DOMAIN ix.contract_index[cid].outpoint_opouts :
                    to_outpoint(seal) = output}
    IN  IF found = {} THEN Err(OutpointUnknown(output, cid))
        ELSE LET seal == CHOOSE s \in found : TRUE
             IN  opouts_by_outputs_from(ix, cid, outpoints, i + 1,
                    opouts \cup ix.contract_index[cid].outpoint_opouts[seal].opouts)

\* IndexReadProvider::opouts_by_outputs
opouts_by_outputs(ix, cid, outpoints) ==
    IF cid \notin DOMAIN ix.contract_index THEN Err(ContractAbsent(cid))
    ELSE opouts_by_outputs_from(ix, cid, outpoints, 1, {})

\* IndexReadProvider::opouts_by_terminals
opouts_by_terminals(ix, terminals) ==
    OkVal(UNION {ix.terminal_index[seal].opouts :
                    seal \in DOMAIN ix.terminal_index \cap terminals})

-----------------------------------------------------------------------------
(* SpecPub: two PubWitness values are drawn, then merged one into the other *)
(* in both directions, and the first merge result is merged with pwA again. *)

PubIdle ==
    /\ pwA = NoPub /\ pwB = NoPub /\ pwSelf = NoPub /\ pwSwap = NoPub
    /\ pwRes = NoRes /\ pwFirst = NoPub /\ pwStep = 0

SealIdle ==
    /\ swSelf = NoSeal /\ swOther = NoSeal /\ swBefore = NoSeal
    /\ swRes = NoRes /\ swStep = 0

StashIdle == stash = EmptyStash /\ stashPrev = EmptyStash /\ stashCall = NoCall

StateIdle == state = EmptyState /\ stateCall = NoCall

IndexIdle == index = EmptyIndex /\ indexCall = NoCall

IterIdle == globalIter = NoIter /\ globalCall = NoCall
ReplayIdle == replay = NoReplay
ResolverIdle == resolver = NoResolver /\ resolverCall = NoCall

InitPub ==
    /\ pwA \in PubWitness
    /\ pwB \in PubWitness
    /\ pwSelf = pwA
    /\ pwSwap = pwB
    /\ pwFirst = pwA
    /\ pwRes = NoRes
    /\ pwStep = 0
    /\ ReplayIdle
    /\ ResolverIdle
    /\ SealIdle
    /\ StashIdle
    /\ StateIdle
    /\ IndexIdle
    /\ IterIdle

\* pwSelf.merge_reveal(&pwB)
MergeOther ==
    /\ pwStep = 0
    /\ LET r == PubMergeReveal(pwSelf, pwB)
       IN  /\ pwSelf' = r.self
           /\ pwFirst' = r.self
           /\ pwRes' = r.res
    /\ pwStep' = 1
    /\ UNCHANGED <<pwA, pwB, pwSwap, sealVars, stashVars, stateVars, indexVars, iterVars, replayVars, resolverVars>>

\* pwSwap.merge_reveal(&pwA): the same pair merged the other way round
MergeSwapped ==
    /\ pwStep = 1
    /\ pwSwap' = PubMergeReveal(pwSwap, pwA).self
    /\ pwStep' = 2
    /\ UNCHANGED <<pwA, pwB, pwSelf, pwFirst, pwRes, sealVars, stashVars, stateVars, indexVars, iterVars, replayVars, resolverVars>>

\* pwSelf.merge_reveal(&pwA): the merge result merged with the original again
MergeBack ==
    /\ pwStep = 2
    /\ pwRes = Ok
    /\ pwSelf' = PubMergeReveal(pwSelf, pwA).self
    /\ pwStep' = 3
    /\ UNCHANGED <<pwA, pwB, pwSwap, pwFirst, pwRes, sealVars, stashVars, stateVars, indexVars, iterVars, replayVars, resolverVars>>

NextPub == MergeOther \/ MergeSwapped \/ MergeBack

SpecPub == InitPub /\ [][NextPub]_vars

-----------------------------------------------------------------------------
(* SpecSeal: two SealWitness values are drawn and the second is merged into *)
(* the first.                                                               *)

InitSeal ==
    /\ swSelf \in SealWitness
    /\ swOther \in SealWitness
    /\ swBefore = swSelf
    /\ swRes = NoRes
    /\ swStep = 0
    /\ ReplayIdle
    /\ ResolverIdle
    /\ PubIdle
    /\ StashIdle
    /\ StateIdle
    /\ IndexIdle
    /\ IterIdle

\* swSelf.merge_reveal(&swOther)
SealMerge ==
    /\ swStep = 0
    /\ LET r == SealMergeReveal(swSelf, swOther)
       IN  /\ swSelf' = r.self
           /\ swRes' = r.res
    /\ swBefore' = swSelf
    /\ swStep' = 1
    /\ UNCHANGED <<swOther, pubVars, stashVars, stateVars, indexVars, iterVars, replayVars, resolverVars>>

NextSeal == SealMerge

SpecSeal == InitSeal /\ [][NextSeal]_vars

-----------------------------------------------------------------------------
(* SpecStash: any sequence of MemStash writes and transaction calls *)

InitStash ==
    /\ stash = EmptyStash
    /\ stashPrev = EmptyStash
    /\ stashCall = NoCall
    /\ ReplayIdle
    /\ ResolverIdle
    /\ PubIdle
    /\ SealIdle
    /\ StateIdle
    /\ IndexIdle
    /\ IterIdle

Call(op, arg, ret) == [op |-> op, arg |-> arg, ret |-> ret]

ReplaceSchema ==
    \E s \in Schema :
        LET r == replace_schema(stash, s)
        IN  /\ stash' = r.stash
            /\ stashPrev' = stash
            /\ stashCall' = Call("replace_schema", s, r.ret)
            /\ UNCHANGED <<pubVars, sealVars, stateVars, indexVars, iterVars, replayVars, resolverVars>>

ReplaceGenesis ==
    \E g \in Genesis :
        LET r == replace_genesis(stash, g)
        IN  /\ stash' = r.stash
            /\ stashPrev' = stash
            /\ stashCall' = Call("replace_genesis", g, r.ret)
            /\ UNCHANGED <<pubVars, sealVars, stateVars, indexVars, iterVars, replayVars, resolverVars>>

ReplaceBundle ==
    \E b \in TransitionBundle :
        LET r == replace_bundle(stash, b)
        IN  /\ stash' = r.stash
            /\ stashPrev' = stash
            /\ stashCall' = Call("replace_bundle", b, r.ret)
            /\ UNCHANGED <<pubVars, sealVars, stateVars, indexVars, iterVars, replayVars, resolverVars>>

ReplaceWitness ==
    \E w \in StashSealWitness :
        LET r == replace_witness(stash, w)
        IN  /\ stash' = r.stash
            /\ stashPrev' = stash
            /\ stashCall' = Call("replace_witness", w, r.ret)
            /\ UNCHANGED <<pubVars, sealVars, stateVars, indexVars, iterVars, replayVars, resolverVars>>

ReplaceLib ==
    \E l \in Lib :
        LET r == replace_lib(stash, l)
        IN  /\ stash' = r.stash
            /\ stashPrev' = stash
            /\ stashCall' = Call("replace_lib", l, r.ret)
            /\ UNCHANGED <<pubVars, sealVars, stateVars, indexVars, iterVars, replayVars, resolverVars>>

ConsumeTypes ==
    \E ts \in SUBSET TypeIds :
        LET r == consume_types(stash, ts)
        IN  /\ stash' = r.stash
            /\ stashPrev' = stash
            /\ stashCall' = Call("consume_types", ts, r.ret)
            /\ UNCHANGED <<pubVars, sealVars, stateVars, indexVars, iterVars, replayVars, resolverVars>>

AddSecretSeal ==
    \E seal \in GraphSeal :
        LET r == add_secret_seal(stash, seal)
        IN  /\ stash' = r.stash
            /\ stashPrev' = stash
            /\ stashCall' = Call("add_secret_seal", seal, r.ret)
            /\ UNCHANGED <<pubVars, sealVars, stateVars, indexVars, iterVars, replayVars, resolverVars>>

\* StoreTransaction for MemStash: with no persistence attached, mark_dirty and
\* store leave the collections alone.
StashBeginTransaction ==
    /\ stashPrev' = stash
    /\ stashCall' = Call("begin_transaction", <<>>, OkVal(<<>>))
    /\ UNCHANGED <<stash, pubVars, sealVars, stateVars, indexVars, iterVars, replayVars, resolverVars>>

StashCommitTransaction ==
    /\ stashPrev' = stash
    /\ stashCall' = Call("commit_transaction", <<>>, OkVal(<<>>))
    /\ UNCHANGED <<stash, pubVars, sealVars, stateVars, indexVars, iterVars, replayVars, resolverVars>>

NextStash ==
    \/ ReplaceSchema \/ ReplaceGenesis \/ ReplaceBundle \/ ReplaceWitness
    \/ ReplaceLib \/ ConsumeTypes \/ AddSecretSeal
    \/ StashBeginTransaction \/ StashCommitTransaction

SpecStash == InitStash /\ [][NextStash]_vars

-----------------------------------------------------------------------------
(* SpecState: any sequence of MemState writes *)

InitState ==
    /\ state = EmptyState
    /\ stateCall = NoCall
    /\ ReplayIdle
    /\ ResolverIdle
    /\ PubIdle
    /\ SealIdle
    /\ StashIdle
    /\ IndexIdle
    /\ IterIdle

\* A call on the MemState. For upsert_witness and update_bundle the arguments
\* are kept, and `before` is what the call wrote over: the ordinal the witness
\* had, or whether the bundle was invalid.
StateCall(op, arg, ret, before) ==
    [op |-> op, arg |-> arg, ret |-> ret, before |-> before]

RegisterContract ==
    \E g \in StateGenesis :
        LET r == register_contract(state, SchemaA, g)
        IN  /\ state' = r.state
            /\ stateCall' = StateCall("register_contract", <<>>, r.ret, <<>>)
            /\ UNCHANGED <<pubVars, sealVars, stashVars, indexVars, iterVars, replayVars, resolverVars>>

\* update_contract(t.contract) and, on the writer it returns, add_transition
AddTransition ==
    \E t \in Transition, wid \in Txids, ord \in WitnessOrd, bid \in BundleIds :
        LET cid == <<"ContractId", t.contract>>
            r == add_transition(state, cid, t, wid, ord, bid)
        IN  /\ update_contract(state, cid) # None
            /\ state' = r.state
            /\ stateCall' = StateCall("add_transition", <<>>, r.ret, <<>>)
            /\ UNCHANGED <<pubVars, sealVars, stashVars, indexVars, iterVars, replayVars, resolverVars>>

UpsertWitness ==
    \E wid \in Txids, ord \in WitnessOrd :
        LET r == upsert_witness(state, wid, ord)
        IN  /\ state' = r.state
            /\ stateCall' = StateCall("upsert_witness", <<wid, ord>>, r.ret,
                                      IF wid \in DOMAIN state.witnesses
                                      THEN Some(state.witnesses[wid]) ELSE None)
            /\ UNCHANGED <<pubVars, sealVars, stashVars, indexVars, iterVars, replayVars, resolverVars>>

UpdateBundle ==
    \E bid \in BundleIds, valid \in BOOLEAN :
        LET r == update_bundle(state, bid, valid)
        IN  /\ state' = r.state
            /\ stateCall' = StateCall("update_bundle", <<bid, valid>>, r.ret,
                                      bid \in state.invalid_bundles)
            /\ UNCHANGED <<pubVars, sealVars, stashVars, indexVars, iterVars, replayVars, resolverVars>>

NextState == RegisterContract \/ AddTransition \/ UpsertWitness \/ UpdateBundle

SpecState == InitState /\ [][NextState]_vars

-----------------------------------------------------------------------------
(* SpecIndex: any sequence of MemIndex writes and transaction calls *)

InitIndex ==
    /\ index = EmptyIndex
    /\ indexCall = NoCall
    /\ ReplayIdle
    /\ ResolverIdle
    /\ PubIdle
    /\ SealIdle
    /\ StashIdle
    /\ StateIdle
    /\ IterIdle

IndexRegisterContract ==
    \E cid \in ContractIds :
        LET r == index_register_contract(index, cid)
        IN  /\ index' = r.index
            /\ indexCall' = Call("register_contract", <<cid>>, r.ret)
            /\ UNCHANGED <<pubVars, sealVars, stashVars, stateVars, iterVars, replayVars, resolverVars>>

RegisterBundle ==
    \E bid \in BundleIds, wid \in Txids, cid \in ContractIds :
        LET r == register_bundle(index, bid, wid, cid)
        IN  /\ index' = r.index
            /\ indexCall' = Call("register_bundle", <<bid, wid, cid>>, r.ret)
            /\ UNCHANGED <<pubVars, sealVars, stashVars, stateVars, iterVars, replayVars, resolverVars>>

RegisterOperation ==
    \E opid \in IndexOpIds, bid \in BundleIds :
        LET r == register_operation(index, opid, bid)
        IN  /\ index' = r.index
            /\ indexCall' = Call("register_operation", <<opid, bid>>, r.ret)
            /\ UNCHANGED <<pubVars, sealVars, stashVars, stateVars, iterVars, replayVars, resolverVars>>

RegisterSpending ==
    \E opid \in SpendingOpIds, bid \in BundleIds :
        LET r == register_spending(index, opid, bid)
        IN  /\ index' = r.index
            /\ indexCall' = Call("register_spending", <<opid, bid>>, r.ret)
            /\ UNCHANGED <<pubVars, sealVars, stashVars, stateVars, iterVars, replayVars, resolverVars>>

\* StoreTransaction for MemIndex: with no persistence attached, mark_dirty and
\* store leave the collections alone.
IndexBeginTransaction ==
    /\ indexCall' = Call("begin_transaction", <<>>, OkVal(<<>>))
    /\ UNCHANGED <<index, pubVars, sealVars, stashVars, stateVars, iterVars, replayVars, resolverVars>>

IndexCommitTransaction ==
    /\ indexCall' = Call("commit_transaction", <<>>, OkVal(<<>>))
    /\ UNCHANGED <<index, pubVars, sealVars, stashVars, stateVars, iterVars, replayVars, resolverVars>>

NextIndex ==
    \/ IndexRegisterContract \/ RegisterBundle \/ RegisterOperation
    \/ RegisterSpending \/ IndexBeginTransaction \/ IndexCommitTransaction

SpecIndex == InitIndex /\ [][NextIndex]_vars

-----------------------------------------------------------------------------
(* SpecGlobal: contract A is built up from global-state transitions and its  *)
(* global state is iterated.  An iterator borrows the state, so the writes   *)
(* wait until it is dropped.                                                 *)

InitGlobal ==
    /\ state = EmptyState
    /\ stateCall = NoCall
    /\ globalIter = NoIter
    /\ globalCall = NoCall
    /\ ReplayIdle
    /\ ResolverIdle
    /\ PubIdle
    /\ SealIdle
    /\ StashIdle
    /\ IndexIdle

WriteRegisterContract ==
    /\ globalIter = NoIter
    /\ state' = register_contract(state, SchemaA, GenesisA).state
    /\ UNCHANGED <<stateCall, iterVars, pubVars, sealVars, stashVars, indexVars, replayVars, resolverVars>>

WriteAddTransition ==
    \E t \in GlobalTransition, wid \in Txids, ord \in WitnessOrd :
        LET cid == <<"ContractId", t.contract>>
        IN  /\ globalIter = NoIter
            /\ update_contract(state, cid) # None
            /\ state' = add_transition(state, cid, t, wid, ord, BundleOf(t)).state
            /\ UNCHANGED <<stateCall, iterVars, pubVars, sealVars, stashVars, indexVars, replayVars, resolverVars>>

WriteUpsertWitness ==
    \E wid \in Txids, ord \in WitnessOrd :
        /\ globalIter = NoIter
        /\ state' = upsert_witness(state, wid, ord).state
        /\ UNCHANGED <<stateCall, iterVars, pubVars, sealVars, stashVars, indexVars, replayVars, resolverVars>>

WriteUpdateBundle ==
    \E bid \in BundleIds, valid \in BOOLEAN :
        /\ globalIter = NoIter
        /\ state' = update_bundle(state, bid, valid).state
        /\ UNCHANGED <<stateCall, iterVars, pubVars, sealVars, stashVars, indexVars, replayVars, resolverVars>>

\* contract_state(cid) and global(ty) on the contract it returns
GlobalOpen ==
    \E cid \in DOMAIN state.contracts, ty \in {"globalA", "globalB"} :
        LET r == global(contract_state(state, cid).val, cid, ty)
        IN  /\ globalIter = NoIter
            /\ globalIter' = IF r.tag = "Ok" THEN r.val ELSE NoIter
            /\ globalCall' = Call("global", <<cid, ty>>, r)
            /\ UNCHANGED <<stateVars, pubVars, sealVars, stashVars, indexVars, replayVars, resolverVars>>

IterPrev ==
    /\ globalIter # NoIter
    /\ globalIter.depth < MaxDepth
    /\ globalIter' = prev(globalIter).it
    /\ globalCall' = Call("prev", <<>>, prev(globalIter).ret)
    /\ UNCHANGED <<stateVars, pubVars, sealVars, stashVars, indexVars, replayVars, resolverVars>>

IterSize ==
    LET r == size(contract_state(state, globalIter.cid).val, globalIter)
    IN  /\ globalIter # NoIter
        /\ globalIter' = r.it
        /\ globalCall' = Call("size", <<>>, r.ret)
        /\ UNCHANGED <<stateVars, pubVars, sealVars, stashVars, indexVars, replayVars, resolverVars>>

IterLast ==
    /\ globalIter # NoIter
    /\ globalCall' = Call("last", <<>>, last(globalIter))
    /\ UNCHANGED <<globalIter, stateVars, pubVars, sealVars, stashVars, indexVars, replayVars, resolverVars>>

IterReset ==
    \E depth \in 0..MaxDepth :
        /\ globalIter # NoIter
        /\ globalIter' = reset(contract_state(state, globalIter.cid).val, globalIter, depth)
        /\ globalCall' = Call("reset", <<depth>>, <<>>)
        /\ UNCHANGED <<stateVars, pubVars, sealVars, stashVars, indexVars, replayVars, resolverVars>>

IterDrop ==
    /\ globalIter # NoIter
    /\ globalIter' = NoIter
    /\ globalCall' = NoCall
    /\ UNCHANGED <<stateVars, pubVars, sealVars, stashVars, indexVars, replayVars, resolverVars>>

NextGlobal ==
    \/ WriteRegisterContract \/ WriteAddTransition \/ WriteUpsertWitness
    \/ WriteUpdateBundle \/ GlobalOpen \/ IterPrev \/ IterSize \/ IterLast
    \/ IterReset \/ IterDrop

SpecGlobal == InitGlobal /\ [][NextGlobal]_vars

-----------------------------------------------------------------------------
(* SpecReplay: the operations of contract A are added to two MemStates, to   *)
(* each in an order of its own in which no transition comes before the       *)
(* operation it spends from; then both are given one witness-ordinal map and *)
(* one set of invalid bundles.                                               *)

InitReplay ==
    /\ replay \in
         {[ops |-> ops, a |-> EmptyState, b |-> EmptyState,
           doneA |-> {}, doneB |-> {}, lastA |-> None, lastB |-> None,
           filtered |-> FALSE] :
            ops \in [ReplayTransition -> [wid : Txids, ord : WitnessOrd]]}
    /\ ResolverIdle
    /\ PubIdle
    /\ SealIdle
    /\ StashIdle
    /\ StateIdle
    /\ IndexIdle
    /\ IterIdle

ReplayGenesisA ==
    /\ replay # NoReplay
    /\ replay.doneA = {}
    /\ replay' = [replay EXCEPT
                    !.a = register_contract(@, SchemaA, GenesisA).state,
                    !.doneA = {GenesisA}, !.lastA = Some(GenesisA)]
    /\ UNCHANGED <<pubVars, sealVars, stashVars, stateVars, indexVars, iterVars, resolverVars>>

ReplayGenesisB ==
    /\ replay # NoReplay
    /\ replay.doneB = {}
    /\ replay' = [replay EXCEPT
                    !.b = register_contract(@, SchemaA, GenesisA).state,
                    !.doneB = {GenesisA}, !.lastB = Some(GenesisA)]
    /\ UNCHANGED <<pubVars, sealVars, stashVars, stateVars, indexVars, iterVars, resolverVars>>

ReplayTransitionA ==
    \E t \in ReplayTransition :
        /\ replay # NoReplay
        /\ ~replay.filtered
        /\ GenesisA \in replay.doneA
        /\ t \notin replay.doneA
        /\ ReplayParents(t) \subseteq replay.doneA
        /\ replay' = [replay EXCEPT
                        !.a = add_transition(@, contract_id(GenesisA), t, replay.ops[t].wid,
                                             replay.ops[t].ord, BundleOf(t)).state,
                        !.doneA = @ \cup {t}, !.lastA = Some(t)]
        /\ UNCHANGED <<pubVars, sealVars, stashVars, stateVars, indexVars, iterVars, resolverVars>>

ReplayTransitionB ==
    \E t \in ReplayTransition :
        /\ replay # NoReplay
        /\ ~replay.filtered
        /\ GenesisA \in replay.doneB
        /\ t \notin replay.doneB
        /\ ReplayParents(t) \subseteq replay.doneB
        /\ replay' = [replay EXCEPT
                        !.b = add_transition(@, contract_id(GenesisA), t, replay.ops[t].wid,
                                             replay.ops[t].ord, BundleOf(t)).state,
                        !.doneB = @ \cup {t}, !.lastB = Some(t)]
        /\ UNCHANGED <<pubVars, sealVars, stashVars, stateVars, indexVars, iterVars, resolverVars>>

\* Both states get the witness-ordinal map and the invalid bundles chosen.
ReplaySetFilter ==
    \E ords \in [DOMAIN replay.a.witnesses -> WitnessOrd], invalid \in SUBSET BundleIds :
        /\ replay # NoReplay
        /\ ~replay.filtered
        /\ replay.doneA = {GenesisA} \cup ReplayTransition
        /\ replay.doneB = {GenesisA} \cup ReplayTransition
        /\ replay' = [replay EXCEPT
                        !.a = UpdateAll(UpsertAll(@, ords), BundleIds, invalid),
                        !.b = UpdateAll(UpsertAll(@, ords), BundleIds, invalid),
                        !.filtered = TRUE]
        /\ UNCHANGED <<pubVars, sealVars, stashVars, stateVars, indexVars, iterVars, resolverVars>>

NextReplay ==
    \/ ReplayGenesisA \/ ReplayGenesisB \/ ReplayTransitionA \/ ReplayTransitionB
    \/ ReplaySetFilter

SpecReplay == InitReplay /\ [][NextReplay]_vars

-----------------------------------------------------------------------------
(* SpecResolver: an AnyResolver over one of the three adapters is given      *)
(* consignments and is asked to resolve witnesses and to check the chain;    *)
(* each call meets a remote that answers as it likes.                        *)

InitResolver ==
    /\ resolver \in {AnyResolver(a) : a \in Adapters}
    /\ resolverCall = NoCall
    /\ PubIdle
    /\ SealIdle
    /\ StashIdle
    /\ StateIdle
    /\ IndexIdle
    /\ IterIdle
    /\ ReplayIdle

\* The last call on the resolver: the remote's answers and the build are
\* kept when the adapter was asked.
ResolverCall(op, arg, got, r, build) ==
    [op |-> op, arg |-> arg, ret |-> got.ret, lookups |-> got.lookups,
     inner |-> got.inner,
     remote |-> IF got.inner = 0 THEN None ELSE Some(r),
     build |-> IF got.inner = 0 THEN None ELSE Some(build)]

AddConsignmentTxes ==
    \E bundles \in ConsignmentBundles :
        /\ resolver # NoResolver
        /\ resolverCall = NoCall
        /\ resolver' = add_consignment_txes(resolver, bundles)
        /\ resolverCall' = ResolverCall("add_consignment_txes", bundles,
                                        [ret |-> Ok, lookups |-> <<>>, inner |-> 0],
                                        None, None)
        /\ UNCHANGED <<pubVars, sealVars, stashVars, stateVars, indexVars, iterVars, replayVars>>

\* The build matters to the Electrum adapter alone, and there only when the
\* confirmations exceed the tip.
ResolveWitness ==
    \E id \in Txids, r \in ResolveAnswers(resolver.inner), build \in Builds :
        /\ resolver # NoResolver
        /\ resolverCall = NoCall
        /\ \/ build = "release64"
           \/ /\ resolver.inner = "electrum"
              /\ r.header # None
              /\ r.confirmations # None
              /\ r.confirmations[1] > r.header[1]
        /\ resolverCall' = ResolverCall("resolve_witness", id,
                                        resolve_witness(resolver, r, id, build), r, build)
        /\ UNCHANGED <<resolver, pubVars, sealVars, stashVars, stateVars, indexVars, iterVars, replayVars>>

CheckChainNet ==
    \E chain_net \in ChainNets, r \in CheckAnswers :
        /\ resolver # NoResolver
        /\ resolverCall = NoCall
        /\ resolverCall' = ResolverCall("check_chain_net", chain_net,
                                        check_chain_net(resolver, r, chain_net), r, "release64")
        /\ UNCHANGED <<resolver, pubVars, sealVars, stashVars, stateVars, indexVars, iterVars, replayVars>>

\* The caller takes the result; the resolver waits for the next call.
ResolverReturn ==
    /\ resolver # NoResolver
    /\ resolverCall # NoCall
    /\ resolverCall' = NoCall
    /\ UNCHANGED <<resolver, pubVars, sealVars, stashVars, stateVars, indexVars, iterVars, replayVars>>

NextResolver == AddConsignmentTxes \/ ResolveWitness \/ CheckChainNet \/ ResolverReturn

SpecResolver == InitResolver /\ [][NextResolver]_vars

-----------------------------------------------------------------------------
(* SpecOpouts: the assignments of the two geneses and of transition A, as    *)
(* they are or concealed, are indexed in any order, for contracts that are   *)
(* registered and for contracts that are not.  The index starts empty or     *)
(* with one transfer of contract A registered.                               *)

\* The index after the bundle of transition A was registered with its
\* witness, its operation and the bundle spending it
TransferIndex ==
    LET bidA == <<"BundleId", "inputsA">>
        bidB == <<"BundleId", "inputsB">>
        ix1 == register_bundle(EmptyIndex, bidA, TxidA, contract_id(GenesisA)).index
        ix2 == register_operation(ix1, op_id(TransitionA), bidA).index
    IN  register_spending(ix2, op_id(TransitionA), bidB).index

\* The operations whose assignments are indexed
IndexedGenesis == {GenesisA, GenesisB, ConcealOp(GenesisB)}
IndexedTransition == {TransitionA, ConcealOp(TransitionA)}

\* The secret seal that operations beyond the ones above assign to as well,
\* and the number of opouts they assign to it
ForeignTerminal == conceal(Seal(Some(TxidB), 0))
ForeignOpouts == MediumMax - 1

\* The outpoints the index is asked for, and the lists of them
Outpoints == {to_outpoint([txid |-> id, vout |-> vout]) : id \in Txids, vout \in 0..1}
OutpointLists ==
    {<<o>> : o \in Outpoints} \cup
    {<<o1, o2>> : o1 \in Outpoints, o2 \in Outpoints}

InitOpouts ==
    /\ index \in {EmptyIndex, TransferIndex}
    /\ indexCall = NoCall
    /\ ReplayIdle
    /\ ResolverIdle
    /\ PubIdle
    /\ SealIdle
    /\ StashIdle
    /\ StateIdle
    /\ IterIdle

IndexGenesisAssignments ==
    \E g \in IndexedGenesis :
        \E ty \in DOMAIN g.assignments :
            LET cid == contract_id(g)
                r == index_genesis_assignments(index, cid, g.assignments[ty].items,
                                               op_id(g), ty)
            IN  /\ index' = r.index
                /\ indexCall' = Call("index_genesis_assignments",
                                     <<cid, g.assignments[ty].items, op_id(g), ty>>,
                                     r.ret)
                /\ UNCHANGED <<pubVars, sealVars, stashVars, stateVars, iterVars, replayVars, resolverVars>>

IndexTransitionAssignments ==
    \E t \in IndexedTransition, wid \in Txids :
        \E ty \in DOMAIN t.assignments :
            LET cid == <<"ContractId", t.contract>>
                r == index_transition_assignments(index, cid, t.assignments[ty].items,
                                                  op_id(t), ty, wid)
            IN  /\ index' = r.index
                /\ indexCall' = Call("index_transition_assignments",
                                     <<cid, t.assignments[ty].items, op_id(t), ty, wid>>,
                                     r.ret)
                /\ UNCHANGED <<pubVars, sealVars, stashVars, stateVars, iterVars, replayVars, resolverVars>>

\* add_terminal, called ForeignOpouts times with the opouts that further
\* operations assign to ForeignTerminal; every one of the calls succeeds.
IndexForeignTerminals ==
    LET len == IF ForeignTerminal \in DOMAIN index.terminal_index
               THEN MediumLen(index.terminal_index[ForeignTerminal]) ELSE 0
        opouts == IF ForeignTerminal \in DOMAIN index.terminal_index
                  THEN index.terminal_index[ForeignTerminal].opouts ELSE {}
    IN  /\ len + ForeignOpouts <= MediumMax
        /\ index' = [index EXCEPT !.terminal_index =
                        Put(@, ForeignTerminal, MediumSet(opouts, len - Cardinality(opouts) + ForeignOpouts))]
        /\ indexCall' = Call("add_terminal", <<ForeignTerminal, ForeignOpouts>>, OkVal(<<>>))
        /\ UNCHANGED <<pubVars, sealVars, stashVars, stateVars, iterVars, replayVars, resolverVars>>

NextOpouts ==
    \/ IndexRegisterContract \/ IndexGenesisAssignments
    \/ IndexTransitionAssignments \/ IndexForeignTerminals

SpecOpouts == InitOpouts /\ [][NextOpouts]_vars

-----------------------------------------------------------------------------
(* Claims on merge-reveal (SpecPub, SpecSeal) *)

\* The first merge (pwB into pwA) has returned.
Merged == pwStep >= 1

SameTxid == txid(pwA) = txid(pwB)

\* C2: merging Tx(t) into Txid(X) with t.txid() = X returns Ok and leaves
\* self structurally equal to Tx(t).
C2_TxidBecomesTx ==
    (Merged /\ pwA.tag = "Txid" /\ pwB.tag = "Tx" /\ SameTxid)
        => (pwRes = Ok /\ pwFirst = pwB)

\* The input the merge is specified to leave at one position: the one with
\* the longer total witness, on a tie the one with the longer sig-script,
\* otherwise self's.
SpecifiedInput(input1, input2) ==
    IF SumLen(input2.witness) > SumLen(input1.witness) THEN input2
    ELSE IF /\ SumLen(input2.witness) = SumLen(input1.witness)
            /\ Len(input2.script_sig) > Len(input1.script_sig) THEN input2
    ELSE input1

\* C3: merging Tx(b) into Tx(a) of the same txid leaves, at every input
\* position, the input with the longer total witness; on a tie the one with
\* the longer sig-script; otherwise self's input.
C3_LongerWitnessKept ==
    (Merged /\ pwA.tag = "Tx" /\ pwB.tag = "Tx" /\ SameTxid)
        => /\ pwFirst.tag = "Tx"
           /\ Len(pwFirst.tx.input) = Len(pwA.tx.input)
           /\ \A i \in DOMAIN pwA.tx.input :
                 pwFirst.tx.input[i] = SpecifiedInput(pwA.tx.input[i], pwB.tx.input[i])

\* C4: a successful merge reveals no less than either input: a transaction
\* body held by self or other is held by the result, and no input's witness
\* data is shorter than in either input.
C4_MergeMonotone ==
    (Merged /\ pwRes = Ok)
        => /\ (pwA.tag = "Tx" \/ pwB.tag = "Tx") => pwFirst.tag = "Tx"
           /\ (pwA.tag = "Tx" /\ pwB.tag = "Tx") =>
                 \A i \in DOMAIN pwA.tx.input :
                    /\ SumLen(pwFirst.tx.input[i].witness) >= SumLen(pwA.tx.input[i].witness)
                    /\ SumLen(pwFirst.tx.input[i].witness) >= SumLen(pwB.tx.input[i].witness)

\* C5: for merge-compatible A and B, merging B into A and then A into the
\* result leaves the result of the first merge; merging A into A leaves A.
C5_MergeIdempotent ==
    /\ (pwStep = 3 /\ SameTxid) => (pwRes = Ok /\ pwSelf = pwFirst)
    /\ (Merged /\ pwA = pwB) => (pwRes = Ok /\ pwFirst = pwA)

\* Witness of C5: a concealed value and a revealed one of the same txid have
\* been merged and the original has been merged back.
C5_Witness ==
    /\ pwStep = 3
    /\ pwA # pwB
    /\ SameTxid
    /\ pwA.tag = "Tx" /\ pwB.tag = "Tx"
    /\ \E i \in DOMAIN pwA.tx.input :
          SumLen(pwA.tx.input[i].witness) < SumLen(pwB.tx.input[i].witness)

\* C6: on values of the same txid, merging B into A and merging A into B
\* give structurally equal results.
C6_MergeCommutative ==
    (pwStep >= 2 /\ SameTxid) => pwFirst = pwSwap

\* C7: merging values whose txids differ returns
\* TxidMismatch(self.txid, other.txid), whatever the variants.
C7_TxidMismatch ==
    (Merged /\ ~SameTxid) => pwRes = TxidMismatch(txid(pwA), txid(pwB))

\* Witness of C7: a Tx and a Txid of different txids have been merged.
C7_Witness ==
    /\ Merged
    /\ ~SameTxid
    /\ pwA.tag = "Tx" /\ pwB.tag = "Txid"
    /\ pwRes.tag = "TxidMismatch"

SealMerged == swStep = 1

\* C8: SealWitness::merge_reveal returns DbcMismatch whenever the DBC proofs
\* differ, before anything is merged; otherwise it merges public, then
\* merkle_block, and returns the first error as WitnessMergeError or
\* MpcMismatch.
C8_SealMergeOrder ==
    SealMerged =>
        IF swBefore.dbc_proof # swOther.dbc_proof
        THEN swRes = DbcMismatch /\ swSelf = swBefore
        ELSE IF txid(swBefore.public) # txid(swOther.public)
        THEN /\ swRes = WitnessMergeError(
                    TxidMismatch(txid(swBefore.public), txid(swOther.public)))
             /\ swSelf.merkle_block = swBefore.merkle_block
        ELSE IF swBefore.merkle_block.root # swOther.merkle_block.root
        THEN swRes.tag = "MpcMismatch"
        ELSE /\ swRes = Ok
             /\ swSelf.merkle_block.known =
                    swBefore.merkle_block.known \cup swOther.merkle_block.known

\* Witness of C8: the DBC proofs differ while the txids and the MPC roots
\* differ as well, and the merge has returned DbcMismatch.
C8_Witness ==
    /\ SealMerged
    /\ swBefore.dbc_proof # swOther.dbc_proof
    /\ txid(swBefore.public) # txid(swOther.public)
    /\ swBefore.merkle_block.root # swOther.merkle_block.root
    /\ swRes = DbcMismatch

-----------------------------------------------------------------------------
(* Claims on the stash (SpecStash) *)

\* The last call was `op`, a write of an object stored under `id` in the
\* collection `field`, read back by `read`: an id that was not stored gives
\* true, the object that was already stored gives false and an unchanged
\* stash, and in both cases the read by id returns the object written.
IdempotentWrite(op, field, id, read) ==
    stashCall.op = op =>
        LET before == stashPrev[field]
            fresh == id \notin DOMAIN before
            again == id \in DOMAIN before /\ before[id] = stashCall.arg
        IN  /\ fresh => stashCall.ret = OkVal(TRUE)
            /\ again => (stashCall.ret = OkVal(FALSE) /\ stash = stashPrev)
            /\ (fresh \/ again) => read = OkVal(stashCall.arg)

\* C9: each of replace_schema, replace_genesis, replace_bundle,
\* replace_witness and replace_lib returns true for an object whose id is not
\* stored, false when called again with the same object, which leaves the
\* stash unchanged, and the read by id then returns the object inserted.
C9_ContentAddressIdempotence ==
    /\ IdempotentWrite("replace_schema", "schemata", schema_id(stashCall.arg),
                       schema(stash, schema_id(stashCall.arg)))
    /\ IdempotentWrite("replace_genesis", "geneses", contract_id(stashCall.arg),
                       genesis(stash, contract_id(stashCall.arg)))
    /\ IdempotentWrite("replace_bundle", "bundles", bundle_id(stashCall.arg),
                       bundle(stash, bundle_id(stashCall.arg)))
    /\ IdempotentWrite("replace_witness", "witnesses", witness_id(stashCall.arg),
                       witness(stash, witness_id(stashCall.arg)))
    /\ IdempotentWrite("replace_lib", "libs", lib_id(stashCall.arg),
                       lib(stash, lib_id(stashCall.arg)))

\* Witness of C9: a seal witness holding a transaction has been written a
\* second time, next to another witness already stored.
C9_Witness ==
    /\ stashCall.op = "replace_witness"
    /\ stashCall.arg.public.tag = "Tx"
    /\ witness_id(stashCall.arg) \in DOMAIN stashPrev.witnesses
    /\ stashPrev.witnesses[witness_id(stashCall.arg)] = stashCall.arg
    /\ stashCall.ret = OkVal(FALSE)
    /\ Cardinality(DOMAIN stash.witnesses) = 2

\* `new` reveals no less than `old`, a seal witness of the same txid.
RevealsNoLess(new, old) ==
    /\ new.dbc_proof = old.dbc_proof
    /\ old.public.tag = "Tx" => new.public.tag = "Tx"
    /\ old.merkle_block.known \subseteq new.merkle_block.known

\* C10: across stash writes a stored seal witness is upgraded only by reveal:
\* it is never replaced by a version of the same txid that reveals less or
\* that carries another DBC proof.
C10_UpgradeOnlyByReveal ==
    \A id \in DOMAIN stashPrev.witnesses :
        /\ id \in DOMAIN stash.witnesses
        /\ RevealsNoLess(stash.witnesses[id], stashPrev.witnesses[id])

-----------------------------------------------------------------------------
(* Claims on the filtered reads of MemState *)

\* Visibility of a stored assignment, judged on the state's own witness map
\* and invalid-bundle set.
Visible(a) ==
    /\ \/ a.witness = None
       \/ /\ a.witness[1] \in DOMAIN state.witnesses
          /\ state.witnesses[a.witness[1]] # Archived
    /\ \/ a.bundle_id = None
       \/ a.bundle_id[1] \notin state.invalid_bundles

VisibleOf(set) == {a \in set : Visible(a)}
VisibleAt(set, outpoint, ty) ==
    {a \in VisibleOf(set) : a.seal = outpoint /\ a.opout.ty = ty}

\* The outpoints and assignment types a contract holds state at
OutpointsOf(cs) ==
    {a.seal : a \in cs.rights} \cup {a.seal : a \in cs.fungibles}
        \cup {a.seal : a \in cs.data}
AssignmentTypesOf(cs) ==
    {a.opout.ty : a \in cs.rights} \cup {a.opout.ty : a \in cs.fungibles}
        \cup {a.opout.ty : a \in cs.data}

\* C1: in every reachable MemState and for every contract, rights_all,
\* fungible_all and data_all return exactly the stored assignments that are
\* visible, and rights, fungible and data return exactly the visible ones at
\* the outpoint and of the type asked for. An assignment is visible iff its
\* witness is None or in the current witnesses map with an ord other than
\* Archived, and its bundle is None or not in the current invalid bundles.
C1_FilteredReadsVisible ==
    \A cid \in DOMAIN state.contracts :
        LET mc == contract_state(state, cid).val
            cs == state.contracts[cid]
        IN  /\ rights_all(mc) = VisibleOf(cs.rights)
            /\ fungible_all(mc) = VisibleOf(cs.fungibles)
            /\ data_all(mc) = VisibleOf(cs.data)
            /\ \A outpoint \in OutpointsOf(cs), ty \in AssignmentTypesOf(cs) :
                  /\ rights(mc, outpoint, ty) =
                        Cardinality(VisibleAt(cs.rights, outpoint, ty))
                  /\ fungible(mc, outpoint, ty) =
                        StatesOf(VisibleAt(cs.fungibles, outpoint, ty))
                  /\ data(mc, outpoint, ty) =
                        StatesOf(VisibleAt(cs.data, outpoint, ty))

\* Witness of C1: one contract holds a genesis right that is read back, a
\* right hidden by an archived witness, a right hidden by an invalid bundle
\* under a live witness, and a fungible assignment that is hidden from both
\* reads; another contract holds structured data that both reads return under
\* a mined witness.
C1_Witness ==
    /\ \E cid \in DOMAIN state.contracts :
         LET mc == contract_state(state, cid).val
             cs == state.contracts[cid]
         IN  /\ \E a \in cs.rights :
                  /\ a.witness # None
                  /\ a.witness[1] \in DOMAIN state.witnesses
                  /\ state.witnesses[a.witness[1]] = Archived
                  /\ a \notin rights_all(mc)
             /\ \E a \in cs.rights :
                  /\ a.witness # None
                  /\ a.witness[1] \in DOMAIN state.witnesses
                  /\ state.witnesses[a.witness[1]] # Archived
                  /\ a.bundle_id # None
                  /\ a.bundle_id[1] \in state.invalid_bundles
                  /\ a \notin rights_all(mc)
                  /\ rights(mc, a.seal, a.opout.ty) = 0
             /\ \E a \in rights_all(mc) :
                  /\ a.witness = None
                  /\ rights(mc, a.seal, a.opout.ty) = 1
             /\ \E a \in cs.fungibles :
                  /\ a.witness # None
                  /\ a \notin fungible_all(mc)
                  /\ fungible(mc, a.seal, a.opout.ty) = EmptyMap
    /\ \E cid \in DOMAIN state.contracts :
         LET mc == contract_state(state, cid).val
             cs == state.contracts[cid]
         IN  \E a \in cs.data :
                /\ a.witness # None
                /\ state.witnesses[a.witness[1]] = Mined(1)
                /\ a \in data_all(mc)
                /\ data(mc, a.seal, a.opout.ty) = a.state :> 1

-----------------------------------------------------------------------------
(* Claims on the stash lifecycle *)

\* The ids a stash holds, per collection
StashKeys(st) ==
    [schemata |-> DOMAIN st.schemata, geneses |-> DOMAIN st.geneses,
     bundles |-> DOMAIN st.bundles, witnesses |-> DOMAIN st.witnesses,
     libs |-> DOMAIN st.libs, secret_seals |-> st.secret_seals]

\* C11: no stash operation (replace_*, consume_types, add_secret_seal, begin
\* or commit) removes an id from schemata, geneses, bundles, witnesses, libs
\* or secret_seals: every key set after a call contains the one before it.
C11_StashKeysMonotone ==
    \A f \in DOMAIN StashKeys(stash) :
        StashKeys(stashPrev)[f] \subseteq StashKeys(stash)[f]

\* Witness of C11: a stored seal witness has just been overwritten by another
\* version while a second witness, a genesis and a secret seal stay stored.
C11_Witness ==
    /\ stashCall.op = "replace_witness"
    /\ witness_id(stashCall.arg) \in DOMAIN stashPrev.witnesses
    /\ stashPrev.witnesses[witness_id(stashCall.arg)] # stashCall.arg
    /\ Cardinality(DOMAIN stash.witnesses) = 2
    /\ DOMAIN stash.geneses # {}
    /\ stash.secret_seals # {}

-----------------------------------------------------------------------------
(* Claims on the index *)

\* C12: when bundle B is associated with contract C1, register_bundle(B, T2,
\* C2) with C2 # C1 fails with DistinctBundleContract{present = C1, expected
\* = C2} and leaves the index unchanged: T2 is not added to B's witnesses and
\* B stays mapped to C1.
C12_DistinctBundleContract ==
    [][(/\ indexCall'.op = "register_bundle"
        /\ indexCall'.arg[1] \in DOMAIN index.bundle_contract_index
        /\ index.bundle_contract_index[indexCall'.arg[1]] # indexCall'.arg[3])
       => /\ indexCall'.ret =
                Err(DistinctBundleContract(indexCall'.arg[1],
                        index.bundle_contract_index[indexCall'.arg[1]],
                        indexCall'.arg[3]))
          /\ index' = index]_vars

\* Witness of C12: a register_bundle call has just failed on a bundle of
\* another contract, with a witness the bundle does not hold.
C12_Witness ==
    /\ indexCall.op = "register_bundle"
    /\ indexCall.ret.tag = "Err"
    /\ indexCall.ret.err.tag = "DistinctBundleContract"
    /\ indexCall.ret.err.present # indexCall.ret.err.expected
    /\ index.bundle_contract_index[indexCall.arg[1]] = indexCall.ret.err.present
    /\ indexCall.arg[2] \notin index.bundle_witness_index[indexCall.arg[1]]

\* The witness set bundle_info would give for a bundle, empty when unknown
BundleWitnesses(ix, bid) ==
    IF bid \in DOMAIN ix.bundle_witness_index THEN ix.bundle_witness_index[bid] ELSE {}

\* C13: every successful register_bundle(B, T, C) leaves bundle_info(B)
\* returning contract C and a witness set that holds T next to the witnesses
\* registered before; it returns true iff B had no contract before the call;
\* and no later index operation takes a contract or a witness away from what
\* bundle_info returns.
C13_BundleInfoInverse ==
    [][/\ (indexCall'.op = "register_bundle" /\ indexCall'.ret.tag = "Ok")
          => /\ bundle_info(index', indexCall'.arg[1]) =
                   OkVal([witness_ids |->
                              BundleWitnesses(index, indexCall'.arg[1])
                                  \cup {indexCall'.arg[2]},
                          contract_id |-> indexCall'.arg[3]])
             /\ indexCall'.ret.val =
                   (indexCall'.arg[1] \notin DOMAIN index.bundle_contract_index)
       /\ \A bid \in BundleIds :
             bundle_info(index, bid).tag = "Ok"
             => /\ bundle_info(index', bid).tag = "Ok"
                /\ bundle_info(index', bid).val.contract_id =
                      bundle_info(index, bid).val.contract_id
                /\ bundle_info(index, bid).val.witness_ids
                      \subseteq bundle_info(index', bid).val.witness_ids]_vars

\* Witness of C13: a bundle has been registered again under its contract with
\* a second witness, the call returned false and bundle_info gives both.
C13_Witness ==
    /\ indexCall.op = "register_bundle"
    /\ indexCall.ret = OkVal(FALSE)
    /\ bundle_info(index, indexCall.arg[1]).tag = "Ok"
    /\ bundle_info(index, indexCall.arg[1]).val.contract_id = indexCall.arg[3]
    /\ Cardinality(bundle_info(index, indexCall.arg[1]).val.witness_ids) = 2

\* C14: register_operation(opid, bid) leaves bundle_id_for_op(opid) returning
\* bid; when opid is mapped to another bundle it fails with
\* DistinctBundleOp{present, expected} and leaves the index unchanged; and no
\* index operation ever changes the bundle an operation is mapped to.
C14_OperationBundleUnique ==
    [][/\ indexCall'.op = "register_operation"
          => IF /\ indexCall'.arg[1] \in DOMAIN index.op_bundle_index
                /\ index.op_bundle_index[indexCall'.arg[1]] # indexCall'.arg[2]
             THEN /\ indexCall'.ret =
                        Err(DistinctBundleOp(indexCall'.arg[1],
                                index.op_bundle_index[indexCall'.arg[1]],
                                indexCall'.arg[2]))
                  /\ index' = index
             ELSE /\ indexCall'.ret =
                        OkVal(indexCall'.arg[1] \notin DOMAIN index.op_bundle_index)
                  /\ bundle_id_for_op(index', indexCall'.arg[1]) =
                        OkVal(indexCall'.arg[2])
       /\ \A opid \in DOMAIN index.op_bundle_index :
             bundle_id_for_op(index', opid) = bundle_id_for_op(index, opid)]_vars

\* Witness of C14: an operation mapped to a bundle has just been refused
\* another bundle, and a second operation is mapped as well.
C14_Witness ==
    /\ indexCall.op = "register_operation"
    /\ indexCall.ret.tag = "Err"
    /\ indexCall.ret.err.tag = "DistinctBundleOp"
    /\ bundle_id_for_op(index, indexCall.arg[1]) = OkVal(indexCall.ret.err.present)
    /\ indexCall.ret.err.present # indexCall.arg[2]
    /\ Cardinality(DOMAIN index.op_bundle_index) = 2

-----------------------------------------------------------------------------
(* Claims on bundle validity and witness ordinals *)

\* The three filtered reads of every contract of a MemState
ReadsOf(st) ==
    [cid \in DOMAIN st.contracts |->
        LET mc == contract_state(st, cid).val
        IN  [rights |-> rights_all(mc), fungibles |-> fungible_all(mc),
             data |-> data_all(mc)]]

\* The reads with the assignments of bundle bid taken out
WithoutBundle(reads, bid) ==
    [cid \in DOMAIN reads |->
        [rights |-> {a \in reads[cid].rights : a.bundle_id # Some(bid)},
         fungibles |-> {a \in reads[cid].fungibles : a.bundle_id # Some(bid)},
         data |-> {a \in reads[cid].data : a.bundle_id # Some(bid)}]]

\* rights(outpoint, ty) of every contract drops by the number of visible
\* rights of bundle bid at that outpoint and of that type.
RightsDropBy(st, next, bid) ==
    \A cid \in DOMAIN st.contracts :
        LET mc == contract_state(st, cid).val
            nc == contract_state(next, cid).val
        IN  \A outpoint \in OutpointsOf(st.contracts[cid]),
               ty \in AssignmentTypesOf(st.contracts[cid]) :
                rights(nc, outpoint, ty) =
                    rights(mc, outpoint, ty)
                    - Cardinality({a \in FilteredAt(mc, mc.unfiltered.rights, outpoint, ty) :
                                      a.bundle_id = Some(bid)})

\* C15: update_bundle(B, false) succeeds and hides every assignment of bundle
\* B from the filtered reads and nothing else (rights counts go n -> n-k);
\* update_bundle(B, true) right after it gives back the state as it was
\* (n-k -> n); update_bundle(B, true) succeeds and takes B, and only B, out of
\* the invalid set; and repeating either call changes nothing.
C15_BundleToggle ==
    [][stateCall'.op = "update_bundle"
       => LET bid == stateCall'.arg[1]
              valid == stateCall'.arg[2]
          IN  /\ stateCall'.ret = OkVal(<<>>)
              /\ state'.witnesses = state.witnesses
              /\ state'.contracts = state.contracts
              /\ valid => state'.invalid_bundles = state.invalid_bundles \ {bid}
              /\ valid /\ bid \notin state.invalid_bundles => state' = state
              /\ ~valid => /\ ReadsOf(state') = WithoutBundle(ReadsOf(state), bid)
                           /\ RightsDropBy(state, state', bid)
              /\ ~valid /\ bid \in state.invalid_bundles => state' = state
              /\ ~valid /\ bid \notin state.invalid_bundles
                    => update_bundle(state', bid, TRUE) = [ret |-> OkVal(<<>>), state |-> state]
      ]_vars

\* Witness of C15: a bundle that was valid has just been invalidated while
\* another one is invalid; a right of it under a live witness is hidden and
\* the count at its outpoint is zero.
C15_Witness ==
    /\ stateCall.op = "update_bundle"
    /\ stateCall.arg[2] = FALSE
    /\ stateCall.before = FALSE
    /\ Cardinality(state.invalid_bundles) = 2
    /\ \E cid \in DOMAIN state.contracts :
          LET mc == contract_state(state, cid).val
          IN  \E a \in state.contracts[cid].rights :
                 /\ a.bundle_id = Some(stateCall.arg[1])
                 /\ check_witness(a, mc.filter)
                 /\ a \notin rights_all(mc)
                 /\ rights(mc, a.seal, a.opout.ty) = 0

\* C16: upsert_witness(txid, ord) succeeds and changes only witnesses[txid]:
\* the other ordinals, every contract's stored global state, rights, fungibles
\* and data and the invalid bundles stay as they were; when the call turns a
\* Tentative witness into a Mined one, rights_all, fungible_all and data_all
\* of every contract return what they returned before.
C16_UpsertWitnessFrame ==
    [][stateCall'.op = "upsert_witness"
       => LET wid == stateCall'.arg[1]
              ord == stateCall'.arg[2]
          IN  /\ stateCall'.ret = OkVal(<<>>)
              /\ state'.contracts = state.contracts
              /\ state'.invalid_bundles = state.invalid_bundles
              /\ state'.witnesses = Put(state.witnesses, wid, ord)
              /\ (/\ wid \in DOMAIN state.witnesses
                  /\ state.witnesses[wid] = Tentative
                  /\ ord.tag = "Mined")
                 => ReadsOf(state') = ReadsOf(state)
      ]_vars

\* Witness of C16: a Tentative witness has just been turned into a Mined one
\* while a bundle is invalid, and a right under that witness is read back.
C16_Witness ==
    /\ stateCall.op = "upsert_witness"
    /\ stateCall.before = Some(Tentative)
    /\ stateCall.arg[2] = Mined(1)
    /\ state.invalid_bundles # {}
    /\ \E cid \in DOMAIN state.contracts :
          \E a \in rights_all(contract_state(state, cid).val) :
              a.witness = Some(stateCall.arg[1])

-----------------------------------------------------------------------------
(* Claims on global state iteration *)

\* WitnessOrd in its total order: Archived < Tentative < Mined(low) < Mined(high)
WitnessOrdRank(ord) ==
    IF ord = Archived THEN 0 ELSE IF ord = Tentative THEN 1 ELSE 1 + ord.height

\* GlobalOrd in its order: a genesis item below every transition item, and
\* transition items by witness ordinal, then nonce, then opid, then index.
GlobalOrdKey(g) ==
    IF g.genesis THEN <<0, 0, 0, 0, g.idx>>
    ELSE <<1, WitnessOrdRank(g.witness[1]), g.nonce, OpIdRank(g.opid[1]), g.idx>>
GlobalOrdLess(a, b) == LexLess(GlobalOrdKey(a), GlobalOrdKey(b))

\* The transition an opid names
TransitionOf(opid) == CHOOSE t \in GlobalTransition : op_id(t) = opid

\* C17: iterating global(ty) with prev() yields the items in descending
\* GlobalOrd, computed from the current witness ordinals: of two items that
\* prev() returns one after the other, the second is never above the first,
\* so an item of a higher witness ordinal comes before one of a lower, ties
\* break by nonce, opid and index, and genesis items come last.
C17_DescendingGlobalOrd ==
    [][(/\ globalCall.op = "prev"
        /\ globalCall'.op = "prev"
        /\ globalCall.ret # None
        /\ globalCall'.ret # None)
       => ~GlobalOrdLess(globalCall.ret[1].ord, globalCall'.ret[1].ord)]_vars

\* C18: global(ty) never yields an item added by a transition whose witness
\* is absent from the witness-ordinal map or is Archived, and the iterator it
\* returns holds every genesis item of the type.
C18_GlobalHidesArchived ==
    /\ (globalCall.op = "prev" /\ globalCall.ret # None)
       => LET out == globalCall.ret[1].out
          IN  out.op_witness.witness_id # None
              => /\ out.op_witness.witness_id[1] \in DOMAIN state.witnesses
                 /\ state.witnesses[out.op_witness.witness_id[1]] # Archived
    /\ (globalCall.op = "global" /\ globalCall.ret.tag = "Ok")
       => \A out \in DOMAIN state.contracts[globalCall.arg[1]].global[globalCall.arg[2]].known :
             out.op_witness.witness_id = None
             => \E i \in DOMAIN globalCall.ret.val.iter :
                   globalCall.ret.val.iter[i].out = out

\* C19: global(ty) never yields an item added by a transition of a bundle
\* that is in invalid_bundles.
C19_GlobalHidesInvalidBundle ==
    (globalCall.op = "prev" /\ globalCall.ret # None)
    => LET out == globalCall.ret[1].out
       IN  out.op_witness.witness_id # None
           => BundleOf(TransitionOf(out.opid)) \notin state.invalid_bundles

\* C20: size() returns the number of items a scan of the global type yields
\* at the time of the call, which the limit caps, however many prev() or
\* reset() calls went before it; it never exceeds the limit.
C20_SizeIsVisibleCount ==
    globalCall.op = "size"
    => LET mc == contract_state(state, globalIter.cid).val
       IN  /\ globalCall.ret = Len(constructor(mc, globalIter.ty))
           /\ globalCall.ret <= mc.unfiltered.global[globalIter.ty].limit

\* C21: reset(depth) puts the cursor at the depth given, wherever it stood:
\* the prev() that follows a reset(d) returns item d + 1 of the scan of the
\* global type, or None when the scan has no more than d items.
C21_ResetPositionsCursor ==
    [][(globalCall.op = "reset" /\ globalCall'.op = "prev")
       => LET scan == constructor(contract_state(state, globalIter.cid).val, globalIter.ty)
              d == globalCall.arg[1]
          IN  globalCall'.ret = IF d < Len(scan) THEN Some(scan[d + 1]) ELSE None]_vars

-----------------------------------------------------------------------------
(* Claims on replay *)

\* C22: two replays of one set of operations of a contract, each in a
\* topological order of its own, show the same state once both have the same
\* witness-ordinal map and the same invalid bundles: rights_all, fungible_all,
\* data_all and the iteration of global(ty) agree.
C22_ReplayOrderIndependent ==
    (replay # NoReplay /\ replay.filtered)
    => /\ ReadsOf(replay.a) = ReadsOf(replay.b)
       /\ \A ty \in DOMAIN SchemaA.global_types :
             GlobalScan(replay.a, contract_id(GenesisA), ty)
                = GlobalScan(replay.b, contract_id(GenesisA), ty)

\* The two replays ended with different operations, one witness took an
\* ordinal from each, and there is state to see.
C22_Witness ==
    /\ replay # NoReplay
    /\ replay.filtered
    /\ replay.lastA # replay.lastB
    /\ replay.ops[TransitionA].wid = replay.ops[TransitionC].wid
    /\ replay.ops[TransitionA].ord # replay.ops[TransitionC].ord
    /\ ReadsOf(replay.a)[contract_id(GenesisA)].rights # {}
    /\ Len(GlobalScan(replay.a, contract_id(GenesisA), "globalA")) = 2

-----------------------------------------------------------------------------
(* Claims on the witnesses of stored state *)

\* The witnesses that the assignments and global items of a contract name
WitnessesOf(cs) ==
    {a.witness[1] : a \in {x \in cs.rights : x.witness # None}}
    \cup {a.witness[1] : a \in {x \in cs.fungibles : x.witness # None}}
    \cup {a.witness[1] : a \in {x \in cs.data : x.witness # None}}
    \cup UNION {{out_witness_id(out)[1] :
                    out \in {o \in DOMAIN cs.global[ty].known : out_witness_id(o) # None}} :
                ty \in DOMAIN cs.global}

-----------------------------------------------------------------------------
(* Claims on the witness resolvers *)

\* C24: AnyResolver::resolve_witness answers Resolved(tx, Tentative) from the
\* transactions that add_consignment_txes took in, which are those of the
\* bundles whose public witness holds the transaction, and does not ask the
\* adapter then, whatever the remote would say; for any other txid it asks
\* the adapter once and returns its answer; check_chain_net always asks the
\* adapter and returns its answer.
C24_ConsignmentCache ==
    [][/\ resolverCall'.op = "add_consignment_txes"
          => LET txs == {w.tx : w \in {b \in resolverCall'.arg : b.tag = "Tx"}}
             IN  /\ DOMAIN resolver'.consignment_txes
                      = DOMAIN resolver.consignment_txes \cup {compute_txid(t) : t \in txs}
                 /\ \A id \in DOMAIN resolver'.consignment_txes :
                       compute_txid(resolver'.consignment_txes[id]) = id
       /\ resolverCall'.op = "resolve_witness"
          => IF resolverCall'.arg \in DOMAIN resolver.consignment_txes
             THEN /\ resolverCall'.ret
                       = OkVal(Resolved(resolver.consignment_txes[resolverCall'.arg], Tentative))
                  /\ resolverCall'.inner = 0
                  /\ resolverCall'.lookups = <<>>
             ELSE /\ resolverCall'.inner = 1
                  /\ resolverCall'.ret
                       = inner_resolve_witness(resolver.inner, resolverCall'.remote[1],
                                               resolverCall'.arg, resolverCall'.build[1]).ret
       /\ resolverCall'.op = "check_chain_net"
          => /\ resolverCall'.inner = 1
             /\ resolverCall'.ret
                  = inner_check_chain_net(resolver.inner, resolverCall'.remote[1],
                                          resolverCall'.arg).ret]_vars

\* A witness was resolved from the consignment transactions of a resolver
\* that holds one transaction and not the other.
C24_Witness ==
    /\ resolverCall.op = "resolve_witness"
    /\ resolverCall.arg \in DOMAIN resolver.consignment_txes
    /\ DOMAIN resolver.consignment_txes # Txids
    /\ resolverCall.inner = 0
    /\ resolverCall.ret.val.ord = Tentative

\* What the remote of an adapter reports about the transaction asked for.
\* It does not know it:
RemoteUnknown(adapter, r) ==
    IF adapter = "electrum" THEN r.header # None /\ r.tx = "unknown" ELSE r.tx = "none"

\* It knows the transaction tx, which is in no block:
RemoteUnconfirmed(adapter, r, tx) ==
    IF adapter = "electrum"
    THEN /\ r.tx = "details"
         /\ r.hex = Some(tx)
         /\ r.confirmations \in {None, Some(0)}
    ELSE /\ r.tx = "some"
         /\ r.found = Some(tx)
         /\ r.status = "ok"
         /\ r.block_height = None

\* It reports the transaction in a block:
RemoteConfirmed(adapter, r) ==
    IF adapter = "electrum"
    THEN r.tx = "details" /\ r.confirmations # None /\ r.confirmations[1] > 0
    ELSE r.tx = "some" /\ r.status = "ok" /\ r.block_height # None

\* It knows the transaction tx in the block of height h and time t.  An
\* Electrum remote counts the confirmations from its tip at the time of the
\* query, which is the tip at the subscription or one of the headers that
\* came since, and finds the Merkle path at height h.
RemoteInBlock(adapter, r, tx, h, t) ==
    IF adapter = "electrum"
    THEN /\ r.tx = "details"
         /\ r.hex = Some(tx)
         /\ r.blocktime = Some(t)
         /\ r.merkle = Some(h)
         /\ \E tip \in r.header[1]..(r.header[1] + r.forward) :
               h <= tip /\ r.confirmations = Some(tip - h + 1)
    ELSE /\ r.tx = "some"
         /\ r.found = Some(tx)
         /\ r.status = "ok"
         /\ r.block_height = Some(h)
         /\ r.block_time = Some(t)

\* C25: asked for a witness, every adapter answers Unresolved when its
\* remote does not know the txid, Resolved(tx, Tentative) when the remote
\* knows the transaction in no block, and Resolved(tx, Mined(WitnessPos(h, t)))
\* when the remote reports it in the block of height h and time t; it never
\* answers Tentative for a transaction that the remote reports in a block.
C25_AdapterStatus ==
    (resolverCall.op = "resolve_witness" /\ resolverCall.inner = 1)
    => LET a == resolver.inner
           r == resolverCall.remote[1]
           ret == resolverCall.ret
       IN  /\ RemoteUnknown(a, r) => ret = OkVal(Unresolved)
           /\ \A tx \in TransactionsOf(0) :
                 /\ RemoteUnconfirmed(a, r, tx) => ret = OkVal(Resolved(tx, Tentative))
                 /\ \A h \in 1..(MaxTip + MaxForward), t \in BlockTimes :
                       (WitnessPos(h, t) # None /\ RemoteInBlock(a, r, tx, h, t))
                       => ret = OkVal(Resolved(tx, MinedAt(WitnessPos(h, t)[1])))
           /\ (ret.tag = "Ok" /\ ret.val.tag = "Resolved" /\ ret.val.ord = Tentative)
              => ~RemoteConfirmed(a, r)

\* The heights of the Merkle lookups of the last call
MerkleLookups ==
    LET asked == resolverCall.lookups
        at == {k \in DOMAIN asked : asked[k].call = "transaction_get_merkle"}
        low == IF at = {} THEN 1 ELSE CHOOSE k \in at : \A j \in at : k <= j
    IN  [k \in 1..Cardinality(at) |-> asked[low + k - 1].at[1]]

\* C26: when the Electrum remote reports a positive number of confirmations
\* for a transaction with its hex and block time, resolve_witness looks for
\* the Merkle path at the heights tip - confirmations + 1 up to
\* tip - confirmations + forward + 1, then one above and one below them, in
\* that order; it stops at the first height where the remote has the path,
\* makes at most forward + 1 + 2 * SAFETY_MARGIN lookups, and returns
\* ResolverIssue when none succeeds.
C26_BoundedMerkleProbing ==
    (/\ resolverCall.op = "resolve_witness"
     /\ resolverCall.inner = 1
     /\ resolver.inner = "electrum"
     /\ resolverCall.remote[1].tx = "details"
     /\ resolverCall.remote[1].hex # None
     /\ resolverCall.remote[1].blocktime # None
     /\ resolverCall.remote[1].confirmations # None
     /\ resolverCall.remote[1].confirmations[1] > 0)
    => LET r == resolverCall.remote[1]
           base == r.header[1] - r.confirmations[1]
           planned == [k \in 1..(r.forward + 1) |-> base + k]
                        \o <<base + r.forward + 2, base>>
           made == MerkleLookups
           hits == {k \in DOMAIN planned : r.merkle = Some(planned[k])}
       IN  /\ Len(made) <= r.forward + 1 + 2 * SAFETY_MARGIN
           /\ Len(made) <= Len(planned)
           /\ \A k \in DOMAIN made : made[k] = planned[k]
           /\ \A k \in DOMAIN made : r.merkle = Some(made[k]) => k = Len(made)
           /\ hits # {} => \E k \in hits : Len(made) = k
           /\ hits = {} => /\ Len(made) = Len(planned)
                           /\ resolverCall.ret = Err(ResolverIssue(Some(resolverCall.arg)))

\* C27: check_chain_net of every adapter first asks the remote for the hash
\* of its block 0 and returns WrongChainNet when it is not the genesis hash
\* of the chain asked for, then probes the remote's verbose transaction
\* query and returns ResolverIssue when the remote does not support it; it
\* returns Ok only when the hash matches and the query is supported.
C27_ChainNetChecks ==
    (resolverCall.op = "check_chain_net" /\ resolverCall.inner = 1)
    => LET r == resolverCall.remote[1]
           asked == resolverCall.lookups
           matches == r.block_hash = Some(genesis_block_hash(resolverCall.arg))
       IN  /\ (r.block_hash # None /\ ~matches) => resolverCall.ret = Err(WrongChainNet)
           /\ (matches /\ resolverCall.arg \in BitcoinChainNets /\ r.verbose = "unsupported")
              => resolverCall.ret = Err(ResolverIssue(None))
           /\ resolverCall.ret = Ok
              => /\ matches
                 /\ r.verbose # "unsupported"
                 /\ Len(asked) = 2
                 /\ asked[1].at = Some(0)
                 /\ asked[2].at = None

-----------------------------------------------------------------------------
(* Claims on the indexing of assignments (SpecOpouts) *)

\* The last call indexed assignments and succeeded
AssignmentsIndexed ==
    /\ indexCall.op \in {"index_genesis_assignments", "index_transition_assignments"}
    /\ indexCall.ret.tag = "Ok"

\* The output seal that the call recorded in indexCall gives to a seal
IndexedOutput(seal) ==
    IF indexCall.op = "index_genesis_assignments" THEN to_output_seal(seal)
    ELSE to_output_seal_or_default(seal, indexCall.arg[5])

\* Every assignment of the call recorded in indexCall is found in ix: a
\* revealed one at position n by its outpoint, a confidential-seal one by
\* its secret seal, both as Opout(opid, type, n).
Retrievable(ix) ==
    LET cid == indexCall.arg[1]
        vec == indexCall.arg[2]
        opid == indexCall.arg[3]
        ty == indexCall.arg[4]
    IN  \A i \in DOMAIN vec :
            IF vec[i].tag = "Revealed"
            THEN LET r == opouts_by_outputs(ix, cid, <<to_outpoint(IndexedOutput(vec[i].seal))>>)
                 IN  r.tag = "Ok" /\ Opout(opid, ty, i - 1) \in r.val
            ELSE Opout(opid, ty, i - 1) \in opouts_by_terminals(ix, {vec[i].seal}).val

\* No opout that is found in ix by an outpoint or by a secret seal is
\* missing from what is found in iy.
NothingLost(ix, iy) ==
    /\ \A cid \in DOMAIN ix.contract_index, o \in Outpoints :
          LET before == opouts_by_outputs(ix, cid, <<o>>)
              after == opouts_by_outputs(iy, cid, <<o>>)
          IN  before.tag = "Ok" => after.tag = "Ok" /\ before.val \subseteq after.val
    /\ \A seal \in DOMAIN ix.terminal_index :
          opouts_by_terminals(ix, {seal}).val \subseteq opouts_by_terminals(iy, {seal}).val

\* C28: after index_genesis_assignments / index_transition_assignments for a
\* registered contract, every revealed assignment at position n is found by
\* opouts_by_outputs(cid, {its outpoint}) as Opout(opid, type, n), the txid
\* of a transition's seal defaulting to the witness txid, and every
\* confidential-seal assignment is found by opouts_by_terminals({its secret
\* seal}); the opouts accumulate and no call loses an earlier entry.
C28_AssignmentsRetrievable ==
    /\ [](AssignmentsIndexed => Retrievable(index))
    /\ [][NothingLost(index, index')]_vars

\* An entry of the terminal index is at its capacity.
TerminalFull(ix) ==
    \E seal \in DOMAIN ix.terminal_index : MediumLen(ix.terminal_index[seal]) >= MediumMax

\* C28 short of the capacity of the terminal entries
C28_BelowCapacity ==
    /\ [](AssignmentsIndexed => Retrievable(index))
    /\ [][~TerminalFull(index) => NothingLost(index, index')]_vars

\* Opouts of two operations are kept under one outpoint and under one
\* secret seal.
C28_Accumulated ==
    /\ AssignmentsIndexed
    /\ \E cid \in DOMAIN index.contract_index, o \in Outpoints :
          LET r == opouts_by_outputs(index, cid, <<o>>)
          IN  r.tag = "Ok" /\ Cardinality({opout.op : opout \in r.val}) > 1
    /\ \E seal \in DOMAIN index.terminal_index :
          Cardinality(opouts_by_terminals(index, {seal}).val) > 1

\* The errors of the reads of ix: of a contract that is not registered, of
\* an outpoint without an entry, of an operation or bundle that is unknown
ReadErrors(ix) ==
    /\ \A cid \in ContractIds \ DOMAIN ix.contract_index :
          /\ public_opouts(ix, cid) = Err(ContractAbsent(cid))
          /\ \A outpoints \in OutpointLists :
                opouts_by_outputs(ix, cid, outpoints) = Err(ContractAbsent(cid))
    /\ \A cid \in DOMAIN ix.contract_index, outpoints \in OutpointLists :
          LET known == {to_outpoint(seal) :
                            seal \in DOMAIN ix.contract_index[cid].outpoint_opouts}
              missing == {i \in DOMAIN outpoints : outpoints[i] \notin known}
          IN  missing # {} =>
                \E i \in missing :
                    opouts_by_outputs(ix, cid, outpoints) =
                        Err(OutpointUnknown(outpoints[i], cid))
    /\ \A opid \in IndexOpIds \ DOMAIN ix.op_bundle_index :
          bundle_id_for_op(ix, opid) = Err(BundleAbsent(opid))
    /\ \A opid \in IndexOpIds \ DOMAIN ix.op_bundle_children_index :
          bundle_ids_children_of_op(ix, opid) = Err(BundleAbsent(opid))
    /\ \A bid \in BundleIds :
          bid \notin DOMAIN ix.bundle_witness_index \cap DOMAIN ix.bundle_contract_index
            => bundle_info(ix, bid) \in {Err(BundleWitnessUnknown(bid)),
                                         Err(BundleContractUnknown(bid))}

\* A call that indexes assignments for a contract that is not registered
\* fails with ContractAbsent and leaves the index as it was.
AbsentContractRefused ==
    (/\ indexCall'.op \in {"index_genesis_assignments", "index_transition_assignments"}
     /\ indexCall'.arg[1] \notin DOMAIN index.contract_index)
    => /\ indexCall'.ret = Err(ContractAbsent(indexCall'.arg[1]))
       /\ index' = index

\* C29: public_opouts, opouts_by_outputs, index_genesis_assignments and
\* index_transition_assignments fail with ContractAbsent for a contract that
\* is not registered, the index staying as it was; opouts_by_outputs fails
\* with OutpointUnknown(outpoint, cid) when a requested outpoint has no entry
\* for the contract; bundle_id_for_op and bundle_ids_children_of_op fail
\* with BundleAbsent(opid) for an unknown operation; bundle_info fails with
\* BundleWitnessUnknown or BundleContractUnknown for an unknown bundle.
C29_IndexErrors ==
    /\ [](ReadErrors(index))
    /\ [][AbsentContractRefused]_vars

\* Assignments were refused for a contract that is not registered, in an
\* index that knows another contract with an outpoint entry, and knows a
\* bundle and an operation while others are unknown.
C29_Witness ==
    /\ indexCall.op = "index_genesis_assignments"
    /\ indexCall.ret = Err(ContractAbsent(indexCall.arg[1]))
    /\ \E cid \in DOMAIN index.contract_index :
          DOMAIN index.contract_index[cid].outpoint_opouts # {}
    /\ DOMAIN index.op_bundle_index # {}
    /\ IndexOpIds \ DOMAIN index.op_bundle_index # {}
    /\ DOMAIN index.bundle_witness_index # {}
    /\ BundleIds \ DOMAIN index.bundle_witness_index # {}

\* C30: contracts_assigning(outpoints) yields a contract id if and only if
\* the index of that contract has an outpoint entry for at least one of the
\* outpoints given, which is when opouts_by_outputs finds that outpoint for
\* the contract; a contract without such an entry, a registered one with an
\* empty index among them, is not yielded.
C30_ContractsAssigning ==
    \A outpoints \in SUBSET Outpoints, cid \in ContractIds :
        cid \in DOMAIN contracts_assigning(index, outpoints)
            <=> \E o \in outpoints : opouts_by_outputs(index, cid, <<o>>).tag = "Ok"

\* Two contracts are registered, one with an outpoint entry and one with an
\* empty index, and only the former is yielded for that outpoint.
C30_Witness ==
    /\ DOMAIN index.contract_index = ContractIds
    /\ \E o \in Outpoints, cid \in ContractIds :
          /\ DOMAIN index.contract_index[cid].outpoint_opouts = {}
          /\ DOMAIN contracts_assigning(index, {o}) = ContractIds \ {cid}

\* Two contracts have an entry for one outpoint and both are yielded for it.
C30_BothYielded ==
    \E o \in Outpoints : DOMAIN contracts_assigning(index, {o}) = ContractIds

-----------------------------------------------------------------------------
(* Claims on the spending bundles of the index (SpecIndex) *)

\* The children the index holds for an operation, none for an unknown one
ChildrenOf(ix, opid) ==
    LET r == bundle_ids_children_of_op(ix, opid)
    IN  IF r.tag = "Ok" THEN r.val ELSE {}

\* C31: register_spending(opid, bid) succeeds and adds bid to the children of
\* opid, a bid registered before staying a single entry, and no call takes a
\* child away, so that bundle_ids_children_of_op(opid) holds every bid ever
\* registered for opid; the call returns false on the first registration for
\* opid and true on every later one.
C31_SpendingAccumulates ==
    [][/\ \A opid \in IndexOpIds : ChildrenOf(index, opid) \subseteq ChildrenOf(index', opid)
       /\ indexCall'.op = "register_spending" =>
            LET opid == indexCall'.arg[1]
                bid == indexCall'.arg[2]
            IN  /\ indexCall'.ret =
                        OkVal(bundle_ids_children_of_op(index, opid).tag = "Ok")
                /\ bundle_ids_children_of_op(index', opid) =
                        OkVal(ChildrenOf(index, opid) \cup {bid})]_vars

\* A second bundle was registered as spending an operation, both bundles are
\* its children and the call returned true.
C31_Witness ==
    /\ indexCall.op = "register_spending"
    /\ indexCall.ret = OkVal(TRUE)
    /\ Cardinality(ChildrenOf(index, indexCall.arg[1])) > 1

-----------------------------------------------------------------------------
(* Claims on the stored global state *)

\* C32: for every contract and every global state type, the number of items
\* stored for the type is at most the max_items of the type, the limit the
\* contract state was created with.
C32_GlobalItemsWithinLimit ==
    \A cid \in DOMAIN state.contracts :
        \A ty \in DOMAIN state.contracts[cid].global :
            Cardinality(DOMAIN state.contracts[cid].global[ty].known)
                <= state.contracts[cid].global[ty].limit

-----------------------------------------------------------------------------
(* Claims on the registration of a contract state (SpecState) *)

\* The witness maps and sets of invalid bundles a read may be filtered by
WitnessMaps == UNION {[ids -> WitnessOrd] : ids \in SUBSET Txids}
InvalidSets == SUBSET BundleIds

\* The global state types a reader asks for; the schema declares the first.
AskedGlobalTypes == {"globalA", "globalB"}

\* The collection of a contract state that holds the assignments of a kind
CollectionOf(cs, kind) ==
    IF kind = "Declarative" THEN cs.rights
    ELSE IF kind = "Fungible" THEN cs.fungibles
    ELSE cs.data

\* The contract state cs has the global types of the schema, each with its
\* max_items as limit.
ShellOf(cs, sch) ==
    /\ DOMAIN cs.global = DOMAIN sch.global_types
    /\ \A ty \in DOMAIN sch.global_types :
          cs.global[ty].limit = sch.global_types[ty].max_items

\* Every revealed assignment of the genesis is stored in cs without a witness
\* and passes the filters of every witness map and set of invalid bundles.
GenesisStored(cs, g) ==
    \A ty \in DOMAIN g.assignments :
        \A i \in DOMAIN g.assignments[ty].items :
            g.assignments[ty].items[i].tag = "Revealed" =>
                \E a \in CollectionOf(cs, g.assignments[ty].kind) :
                    /\ a.opout = Opout(op_id(g), ty, i - 1)
                    /\ a.witness = None
                    /\ \A filter \in WitnessMaps : check_witness(a, filter)
                    /\ \A invalid \in InvalidSets : check_bundle(a, invalid)

\* A step that registers a contract leaves its state as a shell of the
\* schema with the genesis replayed.
RegistersShell ==
    \A g \in StateGenesis :
        (contract_id(g) \notin DOMAIN state.contracts
         /\ contract_id(g) \in DOMAIN state'.contracts)
        => /\ ShellOf(state'.contracts[contract_id(g)], SchemaA)
           /\ GenesisStored(state'.contracts[contract_id(g)], g)

\* The reads of what was never registered or declared fail.
UnknownRefused ==
    /\ \A cid \in ContractIds \ DOMAIN state.contracts :
          /\ contract_state(state, cid) = Err(UnknownContract(cid))
          /\ update_contract(state, cid) = None
    /\ \A cid \in DOMAIN state.contracts :
          \A ty \in AskedGlobalTypes \ DOMAIN SchemaA.global_types :
              global(contract_state(state, cid).val, cid, ty)
                  = Err(UnknownGlobalStateType(ty))

\* C33: register_contract(schema, genesis) creates a contract state whose
\* global map has the global types of the schema and no other, each with the
\* max_items of the type as limit, and replays the genesis: its assignments
\* are stored with no witness and are visible under every witness map.
\* contract_state fails with UnknownContract and update_contract gives None
\* for a contract never registered; global(ty) fails with
\* UnknownGlobalStateType for a type the schema does not declare.
C33_RegisterContractShell ==
    /\ [](UnknownRefused)
    /\ [][RegistersShell]_vars

\* Contract A was registered and contract B was not; the right of the
\* genesis is read back although a witness is archived and a bundle invalid.
C33_Witness ==
    /\ DOMAIN state.contracts = {contract_id(GenesisA)}
    /\ stateCall.op = "register_contract"
    /\ Archived \in {state.witnesses[id] : id \in DOMAIN state.witnesses}
    /\ state.invalid_bundles # {}
    /\ \E a \in rights_all(contract_state(state, contract_id(GenesisA)).val) :
          a.opout.op = op_id(GenesisA)

-----------------------------------------------------------------------------
(* Claims on blocks arriving while a witness is resolved (SpecResolver) *)

\* The answers of an Electrum remote on whose chain the transaction is mined
\* at height h while `early` blocks arrive between block_headers_subscribe
\* and the verbose query, and any number after it: the tip is the one at the
\* subscription, the confirmations count from the tip at the query, the
\* headers of the blocks that arrived are popped, and the Merkle path is
\* found at h alone.
MinedDuringRace(r, h, early) ==
    /\ r.header # None /\ r.tx = "details" /\ r.hex # None
    /\ r.blocktime # None /\ r.blocktime[1] >= GenesisTimestamp
    /\ h >= 1 /\ h <= r.header[1] + early
    /\ r.confirmations = Some(r.header[1] + early - h + 1)
    /\ r.forward >= early
    /\ r.merkle = Some(h)

\* The last call asked the Electrum adapter for a witness.
ElectrumAsked ==
    /\ resolverCall.op = "resolve_witness"
    /\ resolverCall.inner = 1
    /\ resolver.inner = "electrum"

\* C35: when the transaction is mined at height H and blocks arrive between
\* the tip query, the verbose transaction query and the draining of the
\* header notifications, however many, and the remote has the Merkle path
\* at height H only, Electrum resolve_witness returns Resolved(tx, Mined)
\* with height H.
C35_ToleratesNewBlocks ==
    ElectrumAsked =>
        \A h \in 1..(MaxTip + MaxForward), early \in 0..MaxForward :
            MinedDuringRace(resolverCall.remote[1], h, early) =>
                LET r == resolverCall.remote[1]
                IN  resolverCall.ret =
                        OkVal(Resolved(r.hex[1],
                                       MinedAt([height |-> h, timestamp |-> r.blocktime[1]])))

\* C35 for a transaction mined above the number of blocks that arrive
\* before the verbose query
C35_AboveArrivals ==
    ElectrumAsked =>
        \A h \in 1..(MaxTip + MaxForward), early \in 0..MaxForward :
            (MinedDuringRace(resolverCall.remote[1], h, early) /\ h > early) =>
                LET r == resolverCall.remote[1]
                IN  resolverCall.ret =
                        OkVal(Resolved(r.hex[1],
                                       MinedAt([height |-> h, timestamp |-> r.blocktime[1]])))

\* A block arrived before the verbose query and one after it, and the
\* transaction was resolved as mined in a block above the subscribed tip.
C35_RaceResolved ==
    /\ ElectrumAsked
    /\ \E h \in 1..(MaxTip + MaxForward) :
          /\ MinedDuringRace(resolverCall.remote[1], h, 1)
          /\ h > resolverCall.remote[1].header[1]
          /\ resolverCall.ret.tag = "Ok"
          /\ resolverCall.ret.val.tag = "Resolved"
          /\ resolverCall.ret.val.ord = MinedAt([height |-> h,
                                                timestamp |-> resolverCall.remote[1].blocktime[1]])

-----------------------------------------------------------------------------
(* Claims on the heights the Electrum adapter computes (SpecResolver) *)

\* C39: whatever the remote answers, confirmations above the tip height
\* included, Electrum resolve_witness computes no height out of range: the
\* subtraction tip_height - confirmations does not underflow, no height
\* probed is negative, and answers that disagree with each other end in
\* InvalidResolverData or ResolverIssue.
C39_HeightsInRange ==
    ElectrumAsked =>
        /\ resolverCall.ret # Panic
        /\ \A k \in DOMAIN resolverCall.lookups :
              resolverCall.lookups[k].at # Some(OutOfRange)
        /\ LET r == resolverCall.remote[1]
           IN  (/\ r.header # None /\ r.tx = "details" /\ r.hex # None
                /\ r.blocktime # None /\ r.confirmations # None
                /\ r.confirmations[1] > r.header[1])
               => resolverCall.ret \in {Err(InvalidResolverData),
                                        Err(ResolverIssue(Some(resolverCall.arg)))}

\* C39 for the answers whose confirmations do not exceed the tip height
C39_WithinTip ==
    (/\ ElectrumAsked
     /\ resolverCall.remote[1].header # None
     /\ resolverCall.remote[1].confirmations # None
     /\ resolverCall.remote[1].confirmations[1] <= resolverCall.remote[1].header[1])
    => /\ resolverCall.ret # Panic
       /\ \A k \in DOMAIN resolverCall.lookups :
             resolverCall.lookups[k].at # Some(OutOfRange)

-----------------------------------------------------------------------------
(* Claims on the clone of a MemState (SpecState) *)

\* The assignment types a reader asks the state for
ReadTypes == {"rightA", "amountA", "dataA"}

\* The filtered reads of a contract give the same in st and in cl.
SameReads(st, cl, cid) ==
    LET mc == contract_state(st, cid).val
        cc == contract_state(cl, cid).val
    IN  /\ contract_state(cl, cid).tag = "Ok"
        /\ rights_all(cc) = rights_all(mc)
        /\ fungible_all(cc) = fungible_all(mc)
        /\ data_all(cc) = data_all(mc)
        /\ \A o \in Outpoints, ty \in ReadTypes :
              /\ rights(cc, o, ty) = rights(mc, o, ty)
              /\ fungible(cc, o, ty) = fungible(mc, o, ty)
              /\ data(cc, o, ty) = data(mc, o, ty)
        /\ \A ty \in DOMAIN mc.unfiltered.global :
              constructor(cc, ty) = constructor(mc, ty)

\* C36: MemState::clone_no_persistence gives a store with the witnesses,
\* the invalid bundles and the contracts of the original, so that rights_all,
\* fungible_all, data_all, rights and global read the same from the clone as
\* from the original.
C36_CloneReadsAlike ==
    LET clone == clone_no_persistence(state)
    IN  /\ clone.witnesses = state.witnesses
        /\ clone.invalid_bundles = state.invalid_bundles
        /\ clone.contracts = state.contracts
        /\ \A cid \in DOMAIN state.contracts : SameReads(state, clone, cid)

\* C36 for a store without invalid bundles
C36_NoInvalidBundles ==
    state.invalid_bundles = {} =>
        /\ clone_no_persistence(state) = state
        /\ \A cid \in DOMAIN state.contracts :
              SameReads(state, clone_no_persistence(state), cid)

\* The clone shows an assignment that the original hides.
C36_CloneShowsMore ==
    \E cid \in DOMAIN state.contracts :
        rights_all(contract_state(clone_no_persistence(state), cid).val)
            # rights_all(contract_state(state, cid).val)

-----------------------------------------------------------------------------
(* Claims on size() of the global state iterator (SpecGlobal) *)

\* The step is a size() call on the iterator held.
SizeCalled ==
    /\ globalIter # NoIter /\ globalIter' # NoIter
    /\ globalCall'.op = "size"
    /\ <<globalIter, globalCall>>' # <<globalIter, globalCall>>

\* C37: size() does not move the cursor: the prev() calls that follow it
\* return the items they would return without it, and last() still returns
\* the pair that the latest prev() returned.
C37_SizeKeepsCursor ==
    [][SizeCalled => /\ globalIter'.iter = globalIter.iter
                     /\ last(globalIter') = last(globalIter)]_vars

\* size() leaves the pair that last() returns alone.
C37_SizeKeepsLast ==
    [][SizeCalled => last(globalIter') = last(globalIter)]_vars

\* After a prev() that returned an item, size() was called and the cursor
\* is back at the first item of the scan.
C37_SizeRewinds ==
    /\ globalIter # NoIter
    /\ globalCall.op = "size"
    /\ globalIter.last # None
    /\ globalIter.iter # <<>>
    /\ Some(Head(globalIter.iter)) = globalIter.last

-----------------------------------------------------------------------------
(* Claims on repeated assignments (SpecState) *)

\* The three assignment collections of a contract state
Collections(cs) == <<cs.rights, cs.fungibles, cs.data>>

\* A collection holds one entry per (opout, seal).
OnePerKey(set) == \A a \in set, b \in set : AssignmentEq(a, b) => a = b

\* C38: an assignment collection holds at most one entry per (opout, seal);
\* when add_transition or add_genesis adds an assignment whose (opout, seal)
\* equals a stored one, the size of the collection stays and the stored entry
\* keeps the witness, the bundle id and the state it was first inserted
\* with, so that its visibility follows the first witness and bundle.
C38_FirstInsertionKept ==
    /\ [](\A cid \in DOMAIN state.contracts :
            \A k \in 1..3 : OnePerKey(Collections(state.contracts[cid])[k]))
    /\ [][\A cid \in DOMAIN state.contracts :
            \A k \in 1..3 :
                Collections(state.contracts[cid])[k]
                    \subseteq Collections(state'.contracts[cid])[k]]_vars

\* Transition A was added under two witnesses: its right, whose seal is left
\* to the witness, is stored once per witness, and its amount on a seal with
\* a txid is stored once, with one of the two witnesses.
C38_Witness ==
    \E cid \in DOMAIN state.contracts :
        /\ Cardinality({a \in state.contracts[cid].rights :
                            a.opout.op = op_id(TransitionA)}) = 2
        /\ Cardinality({a \in state.contracts[cid].fungibles :
                            a.opout.op = op_id(TransitionA)}) = 1

-----------------------------------------------------------------------------
(* Claims on failed merges (SpecSeal) *)

C40_PublicRefused ==
    /\ SealMerged
    /\ swRes.tag = "WitnessMergeError"
    /\ swBefore.public.tag = "Tx"
    /\ swSelf = swBefore

====
